---- MODULE Spec2Model ----
(***************************************************************************)
(* ZaphWorkClient (src/src/client.ts): wallet-signature session handshake, *)
(* the session request dispatcher with its 401 re-handshake, the x402      *)
(* payment dispatcher, the resource methods and the two composite helpers. *)
(*                                                                         *)
(* A call chain is one invocation of a public method.  JavaScript runs the *)
(* code between two awaits without interruption, so one action is: the     *)
(* response to the pending fetch (or the timer) arrives, and the chain     *)
(* runs up to its next fetch, its next timer, or its end.  The server and  *)
(* the network are the environment: every response is chosen freely.       *)
(***************************************************************************)
EXTENDS Integers, Sequences, FiniteSets, TLC

VARIABLES
    config,          \* the ZaphWorkConfig handed to the constructor
    client,          \* the instance: state, apiUrl, network, useX402, error
    authenticated,   \* ZaphWorkClient.authenticated
    sessionCookie,   \* ZaphWorkClient.sessionCookie ("undefined" when absent)
    chain,           \* call chain id -> its position, locals, call log, result
    now              \* Date.now(), counted from the last call on an idle client

vars == <<config, client, authenticated, sessionCookie, chain, now>>

----------------------------------------------------------------------------
\* Bounds of the model.

\* 401 answers the server gives to the resource fetches of one call chain.
Max401 == 2
\* Date.now() stops advancing under a pending fetch at this value.
MaxNow == 4
\* Outbound HTTP calls one call chain may issue.
MaxCalls == 6

----------------------------------------------------------------------------
\* JavaScript values.

Undefined == "undefined"

\* An optional non-string value: <<>> is undefined, <<v>> is v.
Some(v) == <<v>>
None == <<>>

\* A number: finite with its value, NaN, or Infinity.
Num(n) == [k |-> "finite", v |-> n]
NaN == [k |-> "nan", v |-> 0]
Infinity == [k |-> "inf", v |-> 0]

\* ToBoolean of a number: 0 and NaN are falsy.
TruthyNum(x) == IF x.k = "finite" THEN x.v # 0 ELSE x.k = "inf"

\* ToBoolean of an optional number.
TruthyOptNum(o) == o # None /\ TruthyNum(o[1])

\* ToBoolean of an optional string: undefined and "" are falsy.
TruthyStr(s) == s # Undefined /\ s # ""

\* JSON.stringify of a number: a number that is not finite is written null.
JsonNum(x) == IF x.k = "finite" THEN [t |-> "number", v |-> x.v] ELSE [t |-> "null"]

\* JSON.stringify of a string property: an undefined property is left out.
JsonStr(s) == IF s = Undefined THEN [t |-> "absent"] ELSE [t |-> "string", v |-> s]

----------------------------------------------------------------------------
\* Errors (errors.ts).

ZaphWorkError(message, statusCode) ==
    [name |-> "ZaphWorkError", message |-> message, statusCode |-> statusCode]

AuthenticationError(message) ==
    [name |-> "AuthenticationError", message |-> message, statusCode |-> Some(401)]

ValidationError(message) ==
    [name |-> "ValidationError", message |-> message, statusCode |-> Some(400)]

\* An error thrown by the runtime or a library, not by the SDK.
RuntimeError(name) == [name |-> name, message |-> <<name>>, statusCode |-> None]

\* error instanceof ZaphWorkError
IsZaphWorkError(e) ==
    e.name \in {"ZaphWorkError", "AuthenticationError", "ValidationError",
                "NotFoundError", "InsufficientFundsError"}

----------------------------------------------------------------------------
\* HTTP responses.  status 0 stands for fetch() rejecting (transport failure).

NetworkFailure == 0

ResponseOk(r) == r.status >= 200 /\ r.status <= 299

StatusText(status) ==
    CASE status = 401 -> "Unauthorized"
      [] status = 402 -> "Payment Required"
      [] status = 500 -> "Internal Server Error"
      [] OTHER -> "OK"

\* A body: json says whether response.json() parses it; error, task,
\* escrowAddress and payment are the fields the client reads.
Body(json, error, task, escrowAddress) ==
    [json |-> json, error |-> error, task |-> task, escrowAddress |-> escrowAddress]

BadJson == Body(FALSE, Undefined, None, Undefined)
EmptyJson == Body(TRUE, Undefined, None, Undefined)

ErrorBodies == {BadJson, EmptyJson, Body(TRUE, "denied", None, Undefined)}

\* A Set-Cookie header: undefined (<<>> of headers), or its attribute pairs
\* in order, as name=value separated by ';'.
NoSetCookie == None
SetCookieHeaders ==
    { NoSetCookie,
      Some(<< [name |-> "session", value |-> "s1"] >>),
      Some(<< [name |-> "Path", value |-> "/"], [name |-> "session", value |-> "s2"] >>),
      Some(<< [name |-> "session", value |-> ""], [name |-> "Path", value |-> "/"] >>) }

Response(status, body, setCookie) ==
    [status |-> status, body |-> body, setCookie |-> setCookie]

----------------------------------------------------------------------------
\* The call chain record.

\* An endpoint is its path segments: /api/tasks/t1 is <<"api", "tasks", "t1">>.
NoEndpoint == <<>>
NoOptions == [method |-> "GET", body |-> None]
NoResult == [kind |-> "none"]

IdleChain ==
    [ op        |-> "none",       \* the public method that was called
      method    |-> "none",       \* the resource method whose request is running
      pc        |-> "idle",       \* idle, or the fetch or timer awaited
      endpoint  |-> NoEndpoint,   \* request's endpoint
      options   |-> NoOptions,    \* request's options
      args      |-> None,         \* the public method's parameters
      task      |-> None,         \* createAndFundTask's task
      startTime |-> 0,            \* waitForTaskStatus's startTime
      wakeAt    |-> 0,            \* when the pending timer is due
      slowFetch |-> FALSE,        \* history: time passed under a pending fetch
      lateTimer |-> FALSE,        \* history: a timer fired after it was due
      endTime   |-> 0,            \* Date.now() when the call settled
      n401      |-> 0,            \* 401 answers to this chain's resource fetches
      sleeps    |-> 0,            \* history: timers started
      lastBody  |-> None,         \* history: the last body request returned
      lastAt    |-> 0,            \* history: calls issued when lastBody arrived
      lastSleeps |-> 0,           \* history: timers started when lastBody arrived
      created   |-> None,         \* history: the body createTask's request returned
      lastResponse |-> None,      \* history: the last response received
      sawTarget |-> FALSE,        \* history: getTask fetched a task in targetStatus
      log       |-> <<>>,         \* the outbound HTTP calls, in order
      result    |-> NoResult ]    \* how the call settled

\* The machine state one chain's step reads and writes.
State(c) ==
    [authenticated |-> authenticated, sessionCookie |-> sessionCookie,
     ch |-> chain[c], now |-> now]

\* fetch(): the call goes out, and the chain awaits its response at pc = kind.
Fetch(s, kind, endpoint, options, cookie, payment) ==
    [s EXCEPT !.ch.pc = kind,
              !.ch.log = Append(@, [kind |-> kind, endpoint |-> endpoint,
                                    method |-> options.method, body |-> options.body,
                                    cookie |-> cookie, payment |-> payment])]

\* The public method's promise rejects with error e.
Reject(s, e) ==
    [s EXCEPT !.ch.pc = "idle", !.ch.endTime = s.now,
              !.ch.result = [kind |-> "error", error |-> e]]

\* The public method's promise resolves with value v.
Resolve(s, v) ==
    [s EXCEPT !.ch.pc = "idle", !.ch.endTime = s.now,
              !.ch.result = [kind |-> "ok", value |-> v]]

----------------------------------------------------------------------------
\* constructor

PrivateKeys == {"validKey", "notBase58", "wrongLength"}

\* bs58.decode throws on a character outside the alphabet.
Bs58Decodes(privateKey) == privateKey # "notBase58"

\* Keypair.fromSecretKey throws unless the bytes are a 64-byte secret key.
KeypairFromSecretKeyOk(privateKey) == privateKey = "validKey"

\* apiUrl.replace(/\/$/, ''): apiUrl is a sequence of characters.
StripTrailingSlash(apiUrl) ==
    IF Len(apiUrl) > 0 /\ apiUrl[Len(apiUrl)] = "/"
    THEN SubSeq(apiUrl, 1, Len(apiUrl) - 1)
    ELSE apiUrl

\* config.network || 'devnet'
NetworkOf(cfg) == IF TruthyStr(cfg.network) THEN cfg.network ELSE "devnet"

\* config.useX402 || false ("undefined" when the field is left out)
UseX402Of(cfg) == cfg.useX402 = "true"

NewClient == [state |-> "new", apiUrl |-> <<>>, network |-> Undefined,
              useX402 |-> FALSE, error |-> None]

\* Mutant: the key is parsed outside the try block, so the library's error
\* escapes as it is.
constructor_noCatch(cfg) ==
    IF Bs58Decodes(cfg.privateKey) /\ KeypairFromSecretKeyOk(cfg.privateKey)
    THEN [state |-> "ready", apiUrl |-> StripTrailingSlash(cfg.apiUrl),
          network |-> NetworkOf(cfg), useX402 |-> UseX402Of(cfg), error |-> None]
    ELSE [state |-> "failed", apiUrl |-> StripTrailingSlash(cfg.apiUrl),
          network |-> NetworkOf(cfg), useX402 |-> UseX402Of(cfg),
          error |-> Some(RuntimeError("Error"))]

constructor(cfg) ==
    IF Bs58Decodes(cfg.privateKey) /\ KeypairFromSecretKeyOk(cfg.privateKey)
    THEN [state |-> "ready", apiUrl |-> StripTrailingSlash(cfg.apiUrl),
          network |-> NetworkOf(cfg), useX402 |-> UseX402Of(cfg), error |-> None]
    ELSE [state |-> "failed", apiUrl |-> StripTrailingSlash(cfg.apiUrl),
          network |-> NetworkOf(cfg), useX402 |-> UseX402Of(cfg),
          error |-> Some(ValidationError(
                       <<"Invalid private key format. Expected base58-encoded string.">>))]

Config(apiUrl, privateKey, network, useX402) ==
    [apiUrl |-> apiUrl, privateKey |-> privateKey, network |-> network,
     useX402 |-> useX402]

\* Every config with a key that does not parse, and four with one that does.
Configs ==
    { Config(u, k, n, x) : u \in {<<"h">>, <<"h", "/">>},
                           k \in PrivateKeys \ {"validKey"},
                           n \in {Undefined, "devnet", "mainnet-beta"},
                           x \in {Undefined, "false", "true"} } \cup
    { Config(<<"h", "/">>, "validKey", Undefined, Undefined),
      Config(<<"h">>, "validKey", "devnet", "true"),
      Config(<<"h">>, "validKey", "mainnet-beta", "false"),
      Config(<<"h", "/">>, "validKey", "mainnet-beta", "true") }

----------------------------------------------------------------------------
\* authenticate, request, requestWithX402Payment: the code up to the first await.

WalletAddress == "wallet"

\* Mutant: authenticate resets the session before it starts.
authenticate_resets(s) ==
    Fetch([s EXCEPT !.authenticated = FALSE, !.sessionCookie = Undefined],
          "connect", <<"api", "auth", "wallet", "connect">>,
          [method |-> "POST",
           body |-> Some([walletAddress |-> WalletAddress, walletType |-> "phantom"])],
          Undefined, FALSE)

\* authenticate, up to the wallet-connect fetch.
authenticate(s) ==
    Fetch(s, "connect", <<"api", "auth", "wallet", "connect">>,
          [method |-> "POST",
           body |-> Some([walletAddress |-> WalletAddress, walletType |-> "phantom"])],
          Undefined, FALSE)

\* The Cookie header request attaches: if (this.sessionCookie) ...
CookieHeader(cookie) == IF TruthyStr(cookie) THEN cookie ELSE Undefined

\* Mutant: a retry reuses the headers built for the chain's first attempt.
requestSend_reusesHeaders(s) ==
    LET sent == {i \in 1..Len(s.ch.log) : s.ch.log[i].kind = "fetch"}
    IN  Fetch(s, "fetch", s.ch.endpoint, s.ch.options,
              IF sent = {} THEN CookieHeader(s.sessionCookie)
              ELSE s.ch.log[CHOOSE i \in sent : \A j \in sent : i <= j].cookie,
              FALSE)

\* request, from the headers to the fetch.
requestSend(s) ==
    Fetch(s, "fetch", s.ch.endpoint, s.ch.options, CookieHeader(s.sessionCookie), FALSE)

\* requestWithX402Payment, up to its first fetch: no Cookie header.
requestWithX402Payment(s, endpoint, options) ==
    Fetch([s EXCEPT !.ch.endpoint = endpoint, !.ch.options = options],
          "x402", endpoint, options, Undefined, FALSE)

\* endpoint.startsWith('/api/x402/')
IsX402Endpoint(endpoint) ==
    Len(endpoint) >= 3 /\ endpoint[1] = "api" /\ endpoint[2] = "x402"

\* Mutant: the handshake runs before every call, authenticated or not.
request_alwaysHandshake(s, endpoint, options) ==
    IF IsX402Endpoint(endpoint) /\ client.useX402
    THEN requestWithX402Payment(s, endpoint, options)
    ELSE authenticate([s EXCEPT !.ch.endpoint = endpoint, !.ch.options = options])

\* Mutant: useX402 alone routes to the payment dispatcher, whatever the path.
request_flagOnly(s, endpoint, options) ==
    IF client.useX402
    THEN requestWithX402Payment(s, endpoint, options)
    ELSE LET s1 == [s EXCEPT !.ch.endpoint = endpoint, !.ch.options = options]
         IN  IF ~s1.authenticated THEN authenticate(s1) ELSE requestSend(s1)

\* request, up to its first await.
request(s, endpoint, options) ==
    IF IsX402Endpoint(endpoint) /\ client.useX402
    THEN requestWithX402Payment(s, endpoint, options)
    ELSE LET s1 == [s EXCEPT !.ch.endpoint = endpoint, !.ch.options = options]
         IN  IF ~s1.authenticated THEN authenticate(s1) ELSE requestSend(s1)

\* Mutant: the payment is made and a proof comes back.
makeX402Payment_pays(paymentInfo) ==
    [ok |-> TRUE,
     error |-> ZaphWorkError(<<"unused">>, None),
     proof |-> Some([signature |-> "sig", amount |-> Num(1), timestamp |-> 0,
                     endpoint |-> "e"])]

\* makeX402Payment: the stub throws whatever the challenge.
makeX402Payment(paymentInfo) ==
    [ok |-> FALSE,
     error |-> ZaphWorkError(
        <<"x402 payment not yet implemented in SDK. Use regular session auth for now.">>,
        None),
     proof |-> None]

----------------------------------------------------------------------------
\* Resource methods, up to their first await.

getTask(s, taskId) ==
    request([s EXCEPT !.ch.method = "getTask"], <<"api", "tasks", taskId>>, NoOptions)

fundTask(s, taskId) ==
    request([s EXCEPT !.ch.method = "fundTask"], <<"api", "tasks", taskId, "fund">>,
            [method |-> "POST", body |-> None])

\* Mutant: the devnet guard is missing.
claimFaucet_noGuard(s) ==
    request([s EXCEPT !.ch.method = "claimFaucet"],
            <<"api", "wallet", "claim-usdc-dev">>,
            [method |-> "POST", body |-> None])

claimFaucet(s) ==
    IF client.network # "devnet"
    THEN Reject(s, ValidationError(<<"Faucet is only available on devnet">>))
    ELSE request([s EXCEPT !.ch.method = "claimFaucet"],
                 <<"api", "wallet", "claim-usdc-dev">>,
                 [method |-> "POST", body |-> None])

\* params.currency || 'USDC'
CurrencyOrDefault(currency) == IF TruthyStr(currency) THEN currency ELSE "USDC"

\* Mutant: params.workersNeeded ?? 1, only undefined is replaced.
WorkersOrDefault_nullish(workersNeeded) ==
    IF workersNeeded # None THEN workersNeeded[1] ELSE Num(1)

\* params.workersNeeded || 1
WorkersOrDefault(workersNeeded) ==
    IF TruthyOptNum(workersNeeded) THEN workersNeeded[1] ELSE Num(1)

\* params.deadline?.toISOString(): an invalid Date throws RangeError.
DeadlineThrows(deadline) == deadline = "invalid"
DeadlineIso(deadline) == IF deadline = Undefined THEN Undefined ELSE "iso"

\* The body createTask serialises.
CreateTaskBody(params) ==
    [ title          |-> JsonStr(params.title),
      description    |-> JsonStr(params.description),
      category       |-> JsonStr(params.category),
      payment_amount |-> JsonNum(params.paymentAmount),
      currency       |-> JsonStr(CurrencyOrDefault(params.currency)),
      deadline       |-> JsonStr(DeadlineIso(params.deadline)),
      workers_needed |-> JsonNum(WorkersOrDefault(params.workersNeeded)) ]

\* The body createTaskX402 serialises: payment_per_task, not payment_amount.
CreateTaskX402Body(params) ==
    [ title            |-> JsonStr(params.title),
      description      |-> JsonStr(params.description),
      category         |-> JsonStr(params.category),
      payment_per_task |-> JsonNum(params.paymentAmount),
      currency         |-> JsonStr(CurrencyOrDefault(params.currency)),
      deadline         |-> JsonStr(DeadlineIso(params.deadline)),
      workers_needed   |-> JsonNum(WorkersOrDefault(params.workersNeeded)) ]

CreateTaskEndpoint ==
    IF client.useX402 THEN <<"api", "x402", "tasks">> ELSE <<"api", "tasks", "create">>

createTask(s, params) ==
    IF DeadlineThrows(params.deadline)
    THEN Reject(s, RuntimeError("RangeError"))
    ELSE request([s EXCEPT !.ch.method = "createTask"], CreateTaskEndpoint,
                 [method |-> "POST", body |-> Some(CreateTaskBody(params))])

\* Mutant: createTaskX402 goes through request, like createTask.
createTaskX402_viaRequest(s, params) ==
    IF DeadlineThrows(params.deadline)
    THEN Reject(s, RuntimeError("RangeError"))
    ELSE request([s EXCEPT !.ch.method = "createTaskX402"],
                 <<"api", "x402", "tasks">>,
                 [method |-> "POST", body |-> Some(CreateTaskX402Body(params))])

createTaskX402(s, params) ==
    IF DeadlineThrows(params.deadline)
    THEN Reject(s, RuntimeError("RangeError"))
    ELSE requestWithX402Payment([s EXCEPT !.ch.method = "createTaskX402"],
                                <<"api", "x402", "tasks">>,
                                [method |-> "POST", body |-> Some(CreateTaskX402Body(params))])

submitWorkX402(s, params) ==
    requestWithX402Payment([s EXCEPT !.ch.method = "submitWorkX402"],
                           <<"api", "x402", "submissions">>,
                           [method |-> "POST", body |-> Some(params)])

----------------------------------------------------------------------------
\* Composite helpers.

\* setTimeout(resolve, ms): a delay below 0 counts as 0.
TimerDelay(ms) == IF ms > 0 THEN ms ELSE 0

TimeoutError(args) ==
    ZaphWorkError(<<"Timeout waiting for task ", args.taskId, " to reach status ",
                    args.targetStatus>>, None)

\* Mutant: the while condition compares with <= instead of <.
waitLoop_inclusive(s) ==
    LET a == s.ch.args[1]
    IN  IF s.now - s.ch.startTime <= a.timeoutMs
        THEN getTask(s, a.taskId)
        ELSE Reject(s, TimeoutError(a))

\* waitForTaskStatus: the while condition and the loop body up to the fetch.
waitLoop(s) ==
    LET a == s.ch.args[1]
    IN  IF s.now - s.ch.startTime < a.timeoutMs
        THEN getTask(s, a.taskId)
        ELSE Reject(s, TimeoutError(a))

\* Mutant: a do-while loop, the first fetch goes out before the deadline
\* is looked at.
waitForTaskStatus_fetchFirst(s) ==
    getTask([s EXCEPT !.ch.startTime = s.now], s.ch.args[1].taskId)

\* waitForTaskStatus, from const startTime = Date.now().
waitForTaskStatus(s) == waitLoop([s EXCEPT !.ch.startTime = s.now])

\* task.status === targetStatus
StatusMatches(task, targetStatus) == task.status = targetStatus

\* Mutant: the return on a match is missing, the loop just goes on.
waitCheck_missingReturn(s, task) ==
    LET a == s.ch.args[1]
    IN  IF task = None
        THEN Reject(s, RuntimeError("TypeError"))
        ELSE [s EXCEPT !.ch.pc = "sleep",
                       !.ch.wakeAt = s.now + TimerDelay(a.pollIntervalMs),
                       !.ch.sleeps = @ + 1]

\* waitForTaskStatus: the loop body after getTask returned task.
waitCheck(s, task) ==
    LET a == s.ch.args[1]
    IN  IF task = None
        THEN Reject(s, RuntimeError("TypeError"))
        ELSE IF StatusMatches(task[1], a.targetStatus)
        THEN Resolve(s, task)
        ELSE [s EXCEPT !.ch.pc = "sleep",
                       !.ch.wakeAt = s.now + TimerDelay(a.pollIntervalMs),
                       !.ch.sleeps = @ + 1]

createAndFundTask(s) == createTask(s, s.ch.args[1])

\* createAndFundTask, after createTask returned task: fundTask(task.id).
afterCreate(s, task) ==
    IF task = None
    THEN Reject(s, RuntimeError("TypeError"))
    ELSE fundTask([s EXCEPT !.ch.task = task], task[1].id)

\* Mutant: { escrow_address: escrowAddress, ...task }, the task's own wins.
WithEscrow_taskWins(task, escrowAddress) ==
    IF task.escrow_address # Undefined THEN task
    ELSE [task EXCEPT !.escrow_address = escrowAddress]

\* { ...task, escrow_address: escrowAddress }
WithEscrow(task, escrowAddress) == [task EXCEPT !.escrow_address = escrowAddress]

\* createAndFundTask, after fundTask returned body.
afterFund(s, body) ==
    Resolve(s, [task |-> WithEscrow(s.ch.task[1], body.escrowAddress),
                escrowAddress |-> body.escrowAddress])

\* request (or requestWithX402Payment) returned body to the resource method,
\* which returns to the public method that called it.
methodReturn(s0, body) ==
    LET s == [s0 EXCEPT !.ch.lastBody = Some(body), !.ch.lastAt = Len(s0.ch.log),
                        !.ch.lastSleeps = s0.ch.sleeps,
                        !.ch.sawTarget = @ \/ ( /\ s0.ch.op = "waitForTaskStatus"
                                                /\ body.task # None
                                                /\ body.task[1].status =
                                                      s0.ch.args[1].targetStatus )]
        m == s.ch.method
    IN  CASE m = "getTask" ->
                IF s.ch.op = "waitForTaskStatus"
                THEN waitCheck(s, body.task)
                ELSE Resolve(s, body.task)
          [] m \in {"createTask", "createTaskX402"} ->
                IF s.ch.op = "createAndFundTask"
                THEN afterCreate([s EXCEPT !.ch.created = Some(body)], body.task)
                ELSE Resolve([s EXCEPT !.ch.created = Some(body)], body.task)
          [] m = "fundTask" ->
                IF s.ch.op = "createAndFundTask"
                THEN afterFund(s, body)
                ELSE Resolve(s, body)
          [] m = "submitWorkX402" -> Resolve(s, None)
          [] OTHER -> Resolve(s, body)

----------------------------------------------------------------------------
\* The code after each await.

\* setCookie.match(/session=([^;]+)/): the first session=value whose value is
\* not empty; None when there is no header or no match.
RECURSIVE SessionMatch(_)
SessionMatch(pairs) ==
    IF pairs = <<>> THEN None
    ELSE IF Head(pairs).name = "session" /\ Head(pairs).value # ""
         THEN Some(Head(pairs).value)
         ELSE SessionMatch(Tail(pairs))

ExtractSessionCookie(setCookie) ==
    IF setCookie = NoSetCookie THEN None ELSE SessionMatch(setCookie[1])

\* Mutant: the catch wraps every error, typed or not.
authCatch_wrapsAll(s, e) ==
    Reject(s, AuthenticationError(<<"Authentication failed: ", e.name>>))

\* authenticate's catch: a ZaphWorkError is rethrown, anything else is wrapped.
authCatch(s, e) ==
    IF IsZaphWorkError(e)
    THEN Reject(s, e)
    ELSE Reject(s, AuthenticationError(<<"Authentication failed: ", e.name>>))

\* The message authenticate signs, and its detached signature.
AuthMessage(s) == [wallet |-> WalletAddress, timestamp |-> "Date.now()"]
Sign(message) == [signedBy |-> WalletAddress, over |-> message]

\* Mutant: a failed connect throws the base error, not AuthenticationError.
authenticateConnected_baseError(s, r) ==
    IF r.status = NetworkFailure THEN authCatch(s, RuntimeError("TypeError"))
    ELSE IF ~ResponseOk(r)
    THEN authCatch(s, ZaphWorkError(<<"Failed to connect wallet">>, Some(r.status)))
    ELSE Fetch(s, "session", <<"api", "auth", "session">>,
               [method |-> "POST",
                body |-> Some([walletAddress |-> WalletAddress,
                               signature |-> Sign(AuthMessage(s)),
                               message |-> AuthMessage(s)])],
               Undefined, FALSE)

\* Mutant: connectResponse.ok is not checked.
authenticateConnected_noOkCheck(s, r) ==
    IF r.status = NetworkFailure THEN authCatch(s, RuntimeError("TypeError"))
    ELSE Fetch(s, "session", <<"api", "auth", "session">>,
               [method |-> "POST",
                body |-> Some([walletAddress |-> WalletAddress,
                               signature |-> Sign(AuthMessage(s)),
                               message |-> AuthMessage(s)])],
               Undefined, FALSE)

\* authenticate, after the wallet-connect response.
authenticateConnected(s, r) ==
    IF r.status = NetworkFailure THEN authCatch(s, RuntimeError("TypeError"))
    ELSE IF ~ResponseOk(r)
    THEN authCatch(s, AuthenticationError(<<"Failed to connect wallet">>))
    ELSE Fetch(s, "session", <<"api", "auth", "session">>,
               [method |-> "POST",
                body |-> Some([walletAddress |-> WalletAddress,
                               signature |-> Sign(AuthMessage(s)),
                               message |-> AuthMessage(s)])],
               Undefined, FALSE)

\* Mutant: authenticated is set before the session-create response is checked.
authenticateSession_flagFirst(s0, r) ==
    LET s == [s0 EXCEPT !.authenticated = r.status # NetworkFailure \/ @]
    IN  IF r.status = NetworkFailure THEN authCatch(s, RuntimeError("TypeError"))
        ELSE IF ~ResponseOk(r)
        THEN IF ~r.body.json
             THEN authCatch(s, RuntimeError("SyntaxError"))
             ELSE authCatch(s, AuthenticationError(
                      IF TruthyStr(r.body.error) THEN <<r.body.error>>
                      ELSE <<"Failed to create session">>))
        ELSE LET match == ExtractSessionCookie(r.setCookie)
                 s1 == [s EXCEPT !.sessionCookie = IF match # None THEN match[1] ELSE @,
                                 !.authenticated = TRUE]
             IN  IF s1.ch.op = "authenticate" THEN Resolve(s1, None) ELSE requestSend(s1)

\* Mutant: authenticated is set only when a cookie was extracted.
authenticateSession_needsCookie(s, r) ==
    IF r.status = NetworkFailure THEN authCatch(s, RuntimeError("TypeError"))
    ELSE IF ~ResponseOk(r)
    THEN IF ~r.body.json
         THEN authCatch(s, RuntimeError("SyntaxError"))
         ELSE authCatch(s, AuthenticationError(
                  IF TruthyStr(r.body.error) THEN <<r.body.error>>
                  ELSE <<"Failed to create session">>))
    ELSE LET match == ExtractSessionCookie(r.setCookie)
             s1 == [s EXCEPT !.sessionCookie = IF match # None THEN match[1] ELSE @,
                             !.authenticated = IF match # None THEN TRUE ELSE @]
         IN  IF s1.ch.op = "authenticate" THEN Resolve(s1, None) ELSE requestSend(s1)

\* authenticate, after the session-create response.
authenticateSession(s, r) ==
    IF r.status = NetworkFailure THEN authCatch(s, RuntimeError("TypeError"))
    ELSE IF ~ResponseOk(r)
    THEN IF ~r.body.json
         THEN authCatch(s, RuntimeError("SyntaxError"))
         ELSE authCatch(s, AuthenticationError(
                  IF TruthyStr(r.body.error) THEN <<r.body.error>>
                  ELSE <<"Failed to create session">>))
    ELSE LET match == ExtractSessionCookie(r.setCookie)
             s1 == [s EXCEPT !.sessionCookie = IF match # None THEN match[1] ELSE @,
                             !.authenticated = TRUE]
         IN  IF s1.ch.op = "authenticate" THEN Resolve(s1, None) ELSE requestSend(s1)

\* The ZaphWorkError request builds from a response that is not ok.
ApiError(r) ==
    ZaphWorkError(
        IF ~r.body.json THEN <<"Unknown error">>
        ELSE IF TruthyStr(r.body.error) THEN <<r.body.error>>
        ELSE <<"Request failed: ", StatusText(r.status)>>,
        Some(r.status))

\* Mutant: a 401 clears the session only when the rejected request carried
\* the session that is stored now.
requestResponded_guarded(s, r) ==
    IF r.status = NetworkFailure THEN Reject(s, RuntimeError("TypeError"))
    ELSE IF r.status = 401
    THEN IF s.ch.log[Len(s.ch.log)].cookie = CookieHeader(s.sessionCookie)
         THEN request([s EXCEPT !.authenticated = FALSE, !.sessionCookie = Undefined,
                                !.ch.n401 = @ + 1],
                      s.ch.endpoint, s.ch.options)
         ELSE request([s EXCEPT !.ch.n401 = @ + 1], s.ch.endpoint, s.ch.options)
    ELSE IF ~ResponseOk(r) THEN Reject(s, ApiError(r))
    ELSE IF ~r.body.json THEN Reject(s, RuntimeError("SyntaxError"))
    ELSE methodReturn(s, r.body)

\* Mutant: a 401 drops the cookie and keeps the authenticated flag.
requestResponded_keepsFlag(s, r) ==
    IF r.status = NetworkFailure THEN Reject(s, RuntimeError("TypeError"))
    ELSE IF r.status = 401
    THEN request([s EXCEPT !.sessionCookie = Undefined, !.ch.n401 = @ + 1],
                 s.ch.endpoint, s.ch.options)
    ELSE IF ~ResponseOk(r) THEN Reject(s, ApiError(r))
    ELSE IF ~r.body.json THEN Reject(s, RuntimeError("SyntaxError"))
    ELSE methodReturn(s, r.body)

\* Mutant: after a 401 the request is sent again at once, with no handshake.
requestResponded_resend(s, r) ==
    IF r.status = NetworkFailure THEN Reject(s, RuntimeError("TypeError"))
    ELSE IF r.status = 401
    THEN requestSend([s EXCEPT !.authenticated = FALSE, !.sessionCookie = Undefined,
                               !.ch.n401 = @ + 1])
    ELSE IF ~ResponseOk(r) THEN Reject(s, ApiError(r))
    ELSE IF ~r.body.json THEN Reject(s, RuntimeError("SyntaxError"))
    ELSE methodReturn(s, r.body)

\* Mutant: a successful answer marks the session as used up.
requestResponded_marksStale(s, r) ==
    IF r.status = NetworkFailure THEN Reject(s, RuntimeError("TypeError"))
    ELSE IF r.status = 401
    THEN request([s EXCEPT !.authenticated = FALSE, !.sessionCookie = Undefined,
                           !.ch.n401 = @ + 1],
                 s.ch.endpoint, s.ch.options)
    ELSE IF ~ResponseOk(r) THEN Reject(s, ApiError(r))
    ELSE IF ~r.body.json THEN Reject(s, RuntimeError("SyntaxError"))
    ELSE methodReturn([s EXCEPT !.authenticated = FALSE], r.body)

\* Mutant: a 5xx answer is retried.
requestResponded_retries5xx(s, r) ==
    IF r.status = NetworkFailure THEN Reject(s, RuntimeError("TypeError"))
    ELSE IF r.status = 401
    THEN request([s EXCEPT !.authenticated = FALSE, !.sessionCookie = Undefined,
                           !.ch.n401 = @ + 1],
                 s.ch.endpoint, s.ch.options)
    ELSE IF r.status >= 500 THEN requestSend(s)
    ELSE IF ~ResponseOk(r) THEN Reject(s, ApiError(r))
    ELSE IF ~r.body.json THEN Reject(s, RuntimeError("SyntaxError"))
    ELSE methodReturn(s, r.body)

\* Mutant: a 401 resets the authenticated flag and keeps the cookie.
requestResponded_keepsCookie(s, r) ==
    IF r.status = NetworkFailure THEN Reject(s, RuntimeError("TypeError"))
    ELSE IF r.status = 401
    THEN request([s EXCEPT !.authenticated = FALSE, !.ch.n401 = @ + 1],
                 s.ch.endpoint, s.ch.options)
    ELSE IF ~ResponseOk(r) THEN Reject(s, ApiError(r))
    ELSE IF ~r.body.json THEN Reject(s, RuntimeError("SyntaxError"))
    ELSE methodReturn(s, r.body)

\* Mutant: response.ok is not checked, an error answer is read as a result.
requestResponded_noOkCheck(s, r) ==
    IF r.status = NetworkFailure THEN Reject(s, RuntimeError("TypeError"))
    ELSE IF r.status = 401
    THEN request([s EXCEPT !.authenticated = FALSE, !.sessionCookie = Undefined,
                           !.ch.n401 = @ + 1],
                 s.ch.endpoint, s.ch.options)
    ELSE IF ~r.body.json THEN Reject(s, RuntimeError("SyntaxError"))
    ELSE methodReturn(s, r.body)

\* request, after the response to its fetch.
requestResponded(s, r) ==
    IF r.status = NetworkFailure THEN Reject(s, RuntimeError("TypeError"))
    ELSE IF r.status = 401
    THEN request([s EXCEPT !.authenticated = FALSE, !.sessionCookie = Undefined,
                           !.ch.n401 = @ + 1],
                 s.ch.endpoint, s.ch.options)
    ELSE IF ~ResponseOk(r) THEN Reject(s, ApiError(r))
    ELSE IF ~r.body.json THEN Reject(s, RuntimeError("SyntaxError"))
    ELSE methodReturn(s, r.body)

\* Mutant: every response that is not ok is taken for a payment challenge.
x402Responded_anyFailurePays(s, r) ==
    IF r.status = NetworkFailure THEN Reject(s, RuntimeError("TypeError"))
    ELSE IF s.ch.pc = "x402" /\ ~ResponseOk(r)
    THEN IF ~r.body.json THEN Reject(s, RuntimeError("SyntaxError"))
         ELSE LET paid == makeX402Payment(r.body)
              IN  IF ~paid.ok THEN Reject(s, paid.error)
                  ELSE Fetch(s, "paid", s.ch.endpoint, s.ch.options, Undefined, TRUE)
    ELSE IF ~ResponseOk(r) THEN Reject(s, ApiError(r))
    ELSE IF ~r.body.json THEN Reject(s, RuntimeError("SyntaxError"))
    ELSE methodReturn(s, r.body)

\* Mutant: a 401 clears the session, as request does.
x402Responded_clearsOn401(s, r) ==
    IF r.status = NetworkFailure THEN Reject(s, RuntimeError("TypeError"))
    ELSE IF s.ch.pc = "x402" /\ r.status = 402
    THEN IF ~r.body.json THEN Reject(s, RuntimeError("SyntaxError"))
         ELSE LET paid == makeX402Payment(r.body)
              IN  IF ~paid.ok THEN Reject(s, paid.error)
                  ELSE Fetch(s, "paid", s.ch.endpoint, s.ch.options, Undefined, TRUE)
    ELSE IF r.status = 401
    THEN Reject([s EXCEPT !.authenticated = FALSE, !.sessionCookie = Undefined],
                ApiError(r))
    ELSE IF ~ResponseOk(r) THEN Reject(s, ApiError(r))
    ELSE IF ~r.body.json THEN Reject(s, RuntimeError("SyntaxError"))
    ELSE methodReturn(s, r.body)

\* requestWithX402Payment, after the response to its first fetch (pc = "x402")
\* or to the paid retry (pc = "paid").
x402Responded(s, r) ==
    IF r.status = NetworkFailure THEN Reject(s, RuntimeError("TypeError"))
    ELSE IF s.ch.pc = "x402" /\ r.status = 402
    THEN IF ~r.body.json THEN Reject(s, RuntimeError("SyntaxError"))
         ELSE LET paid == makeX402Payment(r.body)
              IN  IF ~paid.ok THEN Reject(s, paid.error)
                  ELSE Fetch(s, "paid", s.ch.endpoint, s.ch.options, Undefined, TRUE)
    ELSE IF ~ResponseOk(r) THEN Reject(s, ApiError(r))
    ELSE IF ~r.body.json THEN Reject(s, RuntimeError("SyntaxError"))
    ELSE methodReturn(s, r.body)

----------------------------------------------------------------------------
\* The environment: what callers pass and what the server answers.

TaskIds == {"t1", "t2"}
TaskStatuses == {"open", "completed"}

Task(id, status, escrow) == [id |-> id, status |-> status, escrow_address |-> escrow]

CreateTaskParamsSet ==
    { [title |-> "t", description |-> "d", category |-> "data", paymentAmount |-> Num(5),
       currency |-> Undefined, deadline |-> Undefined, workersNeeded |-> None],
      [title |-> "t", description |-> "d", category |-> "data", paymentAmount |-> Num(0),
       currency |-> "", deadline |-> "valid", workersNeeded |-> Some(Num(0))],
      [title |-> "t", description |-> "d", category |-> "data", paymentAmount |-> NaN,
       currency |-> "SOL", deadline |-> Undefined, workersNeeded |-> Some(Num(3))],
      [title |-> "t", description |-> "d", category |-> "data", paymentAmount |-> Num(2),
       currency |-> "USDC", deadline |-> Undefined, workersNeeded |-> Some(Infinity)],
      [title |-> "t", description |-> "d", category |-> "data", paymentAmount |-> Infinity,
       currency |-> "SOL", deadline |-> "invalid", workersNeeded |-> Some(NaN)] }

SubmitWorkParamsSet ==
    { [taskId |-> "t1", submissionType |-> "text", submissionText |-> "done",
       submissionUrl |-> Undefined] }

WaitArgs(timeoutMs, pollIntervalMs) ==
    [taskId |-> "t1", targetStatus |-> "completed",
     timeoutMs |-> timeoutMs, pollIntervalMs |-> pollIntervalMs]

WaitArgsSet ==
    { WaitArgs(3, 2), WaitArgs(2, 1), WaitArgs(0, 0), WaitArgs(0, 1), WaitArgs(-1, 1) }

\* Bodies of a 2xx answer, by the resource method that asked.
SuccessBodies(method) ==
    CASE method = "getTask" ->
            {BadJson, EmptyJson} \cup
            { Body(TRUE, Undefined, Some(Task(id, st, Undefined)), Undefined) :
                id \in TaskIds, st \in TaskStatuses }
      [] method \in {"createTask", "createTaskX402"} ->
            {BadJson, EmptyJson} \cup
            { Body(TRUE, Undefined, Some(Task(id, "open", e)), Undefined) :
                id \in TaskIds, e \in {Undefined, "e0"} }
      [] method = "fundTask" ->
            {BadJson} \cup
            { Body(TRUE, Undefined, None, e) : e \in {Undefined, "e1", "e2"} }
      [] OTHER -> {BadJson, EmptyJson}

ConnectResponses ==
    { Response(st, EmptyJson, NoSetCookie) : st \in {200, 500, NetworkFailure} }

SessionResponses ==
    { Response(200, EmptyJson, h) : h \in SetCookieHeaders } \cup
    { Response(401, b, NoSetCookie) : b \in ErrorBodies } \cup
    { Response(NetworkFailure, EmptyJson, NoSetCookie) }

\* Answers to request's fetch: 2xx, 401, 500, or no answer at all.
ResourceResponses(method) ==
    { Response(200, b, NoSetCookie) : b \in SuccessBodies(method) } \cup
    { Response(500, b, NoSetCookie) : b \in ErrorBodies } \cup
    { Response(401, EmptyJson, NoSetCookie),
      Response(NetworkFailure, EmptyJson, NoSetCookie) }

\* Answers to the fetches of requestWithX402Payment: also 402, the challenge.
X402Responses(method) ==
    ResourceResponses(method) \cup
    { Response(402, b, NoSetCookie) : b \in {BadJson, EmptyJson} }

----------------------------------------------------------------------------
\* Actions.

Idle(c) == chain[c].pc = "idle"

\* A public method is called on the constructed client by an idle chain.  The
\* clock restarts when no other chain is running: the code reads differences
\* of Date.now() only.
Begin(c, op, args) ==
    [State(c) EXCEPT !.ch = [IdleChain EXCEPT !.op = op, !.args = Some(args)],
                     !.now = IF \A d \in DOMAIN chain : Idle(d) THEN 0 ELSE now]

CanCall(c) == client.state = "ready" /\ Idle(c)

Commit(c, s) ==
    /\ Len(s.ch.log) <= MaxCalls
    /\ authenticated' = s.authenticated
    /\ sessionCookie' = s.sessionCookie
    /\ chain' = [chain EXCEPT ![c] = s.ch]
    /\ now' = s.now
    /\ UNCHANGED <<config, client>>

\* The chain receives response r to its pending fetch.
Received(c, r) == [State(c) EXCEPT !.ch.lastResponse = Some(r)]

Construct ==
    /\ client.state = "new"
    /\ client' = constructor(config)
    /\ UNCHANGED <<config, authenticated, sessionCookie, chain, now>>

CallAuthenticate(c) ==
    /\ CanCall(c)
    /\ Commit(c, authenticate(Begin(c, "authenticate", None)))

CallGetTask(c, taskId) ==
    /\ CanCall(c)
    /\ Commit(c, getTask(Begin(c, "getTask", taskId), taskId))

CallFundTask(c, taskId) ==
    /\ CanCall(c)
    /\ Commit(c, fundTask(Begin(c, "fundTask", taskId), taskId))

CallClaimFaucet(c) ==
    /\ CanCall(c)
    /\ Commit(c, claimFaucet(Begin(c, "claimFaucet", None)))

CallCreateTask(c, params) ==
    /\ CanCall(c)
    /\ Commit(c, createTask(Begin(c, "createTask", params), params))

CallCreateTaskX402(c, params) ==
    /\ CanCall(c)
    /\ Commit(c, createTaskX402(Begin(c, "createTaskX402", params), params))

CallSubmitWorkX402(c, params) ==
    /\ CanCall(c)
    /\ Commit(c, submitWorkX402(Begin(c, "submitWorkX402", params), params))

CallWaitForTaskStatus(c, args) ==
    /\ CanCall(c)
    /\ Commit(c, waitForTaskStatus(Begin(c, "waitForTaskStatus", args)))

CallCreateAndFundTask(c, params) ==
    /\ CanCall(c)
    /\ Commit(c, createAndFundTask(Begin(c, "createAndFundTask", params)))

ConnectResponse(c, r) ==
    /\ chain[c].pc = "connect"
    /\ Commit(c, authenticateConnected(Received(c, r), r))

SessionResponse(c, r) ==
    /\ chain[c].pc = "session"
    /\ Commit(c, authenticateSession(Received(c, r), r))

RequestResponse(c, r) ==
    /\ chain[c].pc = "fetch"
    /\ r.status = 401 => chain[c].n401 < Max401
    /\ Commit(c, requestResponded(Received(c, r), r))

X402Response(c, r) ==
    /\ chain[c].pc \in {"x402", "paid"}
    /\ Commit(c, x402Responded(Received(c, r), r))

\* The timer of waitForTaskStatus fires, at or after the time it is due.
TimerFires(c) ==
    /\ chain[c].pc = "sleep"
    /\ now >= chain[c].wakeAt
    /\ Commit(c, waitLoop([State(c) EXCEPT !.ch.lateTimer = @ \/ now > chain[c].wakeAt]))

\* Time passes while a waitForTaskStatus is running: under its pending
\* resource fetch, or under its timer.  (Time that passes under a handshake
\* is read by the code no earlier than time that passes under the fetch that
\* follows it.)
Tick ==
    /\ \E c \in DOMAIN chain :
          /\ chain[c].op = "waitForTaskStatus"
          /\ \/ chain[c].pc = "fetch" /\ now < MaxNow
             \/ chain[c].pc = "sleep" /\ now < chain[c].wakeAt
             \/ chain[c].pc = "sleep" /\ now < MaxNow
    /\ now' = now + 1
    /\ chain' = [c \in DOMAIN chain |->
                    IF chain[c].pc = "fetch" THEN [chain[c] EXCEPT !.slowFetch = TRUE]
                    ELSE chain[c]]
    /\ UNCHANGED <<config, client, authenticated, sessionCookie>>

Init ==
    /\ config \in Configs
    /\ client = NewClient
    /\ authenticated = FALSE
    /\ sessionCookie = Undefined
    /\ chain = [c \in {1} |-> IdleChain]
    /\ now = 0

Next ==
    \/ Construct
    \/ Tick
    \/ \E c \in DOMAIN chain : CallAuthenticate(c)
    \/ \E c \in DOMAIN chain, taskId \in TaskIds : CallGetTask(c, taskId)
    \/ \E c \in DOMAIN chain, taskId \in TaskIds : CallFundTask(c, taskId)
    \/ \E c \in DOMAIN chain : CallClaimFaucet(c)
    \/ \E c \in DOMAIN chain, params \in CreateTaskParamsSet : CallCreateTask(c, params)
    \/ \E c \in DOMAIN chain, params \in CreateTaskParamsSet : CallCreateTaskX402(c, params)
    \/ \E c \in DOMAIN chain, params \in SubmitWorkParamsSet : CallSubmitWorkX402(c, params)
    \/ \E c \in DOMAIN chain, args \in WaitArgsSet : CallWaitForTaskStatus(c, args)
    \/ \E c \in DOMAIN chain, params \in CreateTaskParamsSet : CallCreateAndFundTask(c, params)
    \/ \E c \in DOMAIN chain, r \in ConnectResponses : ConnectResponse(c, r)
    \/ \E c \in DOMAIN chain, r \in SessionResponses : SessionResponse(c, r)
    \/ \E c \in DOMAIN chain :
          \E r \in ResourceResponses(chain[c].method) : RequestResponse(c, r)
    \/ \E c \in DOMAIN chain :
          \E r \in X402Responses(chain[c].method) : X402Response(c, r)
    \/ \E c \in DOMAIN chain : TimerFires(c)

Spec == Init /\ [][Next]_vars

----------------------------------------------------------------------------
\* Vocabulary of the properties.

Chains == DOMAIN chain

Settled(ch) == ch.op # "none" /\ ch.pc = "idle"
Succeeded(ch) == Settled(ch) /\ ch.result.kind = "ok"
Failed(ch) == Settled(ch) /\ ch.result.kind = "error"
FailedWith(ch, name) == Failed(ch) /\ ch.result.error.name = name

\* The positions of the log that hold a call of one of the kinds.
CallsOf(ch, kinds) == {i \in 1..Len(ch.log) : ch.log[i].kind \in kinds}

LastResponseOk(ch) == ch.lastResponse # None /\ ResponseOk(ch.lastResponse[1])

\* Public methods that make exactly one call of request, on the session path.
OneRequestOps == {"getTask", "fundTask", "claimFaucet"}

----------------------------------------------------------------------------
\* C1: on the session path a second consecutive 401 (the retried call is
\* answered 401 too) makes request fail with a ZaphWorkError of status 401:
\* there is at most one re-handshake and at most one retried call.
C1_SecondUnauthorizedPropagates ==
    \A c \in Chains :
        LET ch == chain[c]
        IN  (ch.op \in OneRequestOps /\ ch.n401 >= 2) =>
                /\ FailedWith(ch, "ZaphWorkError")
                /\ ch.result.error.statusCode = Some(401)
                /\ Cardinality(CallsOf(ch, {"fetch"})) <= 2

----------------------------------------------------------------------------
\* C2: a call of authenticate() that succeeds issued exactly two HTTP calls,
\* the wallet-connect POST and then the session-create POST; and whenever a
\* session-create call is pending, the call before it is the wallet-connect
\* call and the response received last, which is the answer to that connect
\* call, was successful.
C2_ConnectThenSession ==
    \A c \in Chains :
        LET ch == chain[c]
            n == Len(ch.log)
        IN  /\ (ch.op = "authenticate" /\ Succeeded(ch)) =>
                  /\ n = 2
                  /\ ch.log[1].kind = "connect"
                  /\ ch.log[1].endpoint = <<"api", "auth", "wallet", "connect">>
                  /\ ch.log[1].method = "POST"
                  /\ ch.log[2].kind = "session"
                  /\ ch.log[2].endpoint = <<"api", "auth", "session">>
                  /\ ch.log[2].method = "POST"
            /\ ch.pc = "session" =>
                  /\ n >= 2
                  /\ ch.log[n].kind = "session"
                  /\ ch.log[n - 1].kind = "connect"
                  /\ LastResponseOk(ch)
            /\ \A i \in CallsOf(ch, {"session"}) : i > 1 /\ ch.log[i - 1].kind = "connect"

\* authenticate() has succeeded on a client that was not authenticated.
C2_Witness ==
    \E c \in Chains :
        /\ chain[c].op = "authenticate" /\ Succeeded(chain[c])
        /\ Len(chain[c].log) = 2
        /\ authenticated

----------------------------------------------------------------------------
\* C3: constructing a client with a private key that does not decode into a
\* keypair fails with ValidationError, whatever the other config fields, and
\* no HTTP call is ever made.
C3_BadKeyFailsConstruction ==
    (client.state # "new" /\ config.privateKey \in {"notBase58", "wrongLength"}) =>
        /\ client.state = "failed"
        /\ client.error # None
        /\ client.error[1].name = "ValidationError"
        /\ \A c \in Chains : chain[c].log = <<>> /\ chain[c].op = "none"

\* The constructor has thrown for a key of the wrong length, x402 enabled.
C3_Witness ==
    /\ client.state = "failed"
    /\ config.privateKey = "wrongLength"
    /\ config.useX402 = "true"
    /\ config.network = "mainnet-beta"

----------------------------------------------------------------------------
\* Public methods that make exactly one call of requestWithX402Payment when
\* their first call is of kind x402.
OneX402Ops == {"createTask", "createTaskX402", "submitWorkX402"}

ThroughX402(ch) ==
    ch.op \in OneX402Ops /\ Len(ch.log) >= 1 /\ ch.log[1].kind = "x402"

\* What the resource method makes of the body its request returned.
Unwrapped(ch, body) == IF ch.method = "submitWorkX402" THEN None ELSE body.task

\* C4: when the fetch of requestWithX402Payment is not answered 402, that
\* fetch is the only HTTP call; a 2xx answer with a JSON body makes it return
\* that body as it is, and an answer that is neither 2xx nor 402 makes it fail
\* with a ZaphWorkError that carries the status of the answer.
C4_NoChallengeOneCall ==
    \A c \in Chains :
        LET ch == chain[c]
            r == ch.lastResponse[1]
        IN  (ThroughX402(ch) /\ ch.lastResponse # None /\ r.status # 402) =>
                /\ Len(ch.log) = 1
                /\ Settled(ch)
                /\ (ResponseOk(r) /\ r.body.json) =>
                      /\ Succeeded(ch)
                      /\ ch.lastBody = Some(r.body)
                      /\ ch.result.value = Unwrapped(ch, r.body)
                /\ (r.status # NetworkFailure /\ ~ResponseOk(r)) =>
                      /\ FailedWith(ch, "ZaphWorkError")
                      /\ ch.result.error.statusCode = Some(r.status)

\* Both cases have happened: createTaskX402 has returned the task of a 200
\* answer after one call.
C4_Witness ==
    \E c \in Chains :
        /\ ThroughX402(chain[c]) /\ chain[c].op = "createTaskX402"
        /\ Succeeded(chain[c])
        /\ chain[c].lastResponse[1].status = 200
        /\ chain[c].result.value # None

----------------------------------------------------------------------------
NotImplementedError ==
    [name |-> "ZaphWorkError",
     message |-> <<"x402 payment not yet implemented in SDK. Use regular session auth for now.">>,
     statusCode |-> None]

\* C5 as claimed: whenever the first answer is 402, the call fails with the
\* 'not implemented' error of makeX402Payment, no paid retry is sent, and one
\* HTTP call was made.
C5_ChallengeFailsNotImplemented ==
    \A c \in Chains :
        LET ch == chain[c]
        IN  (ThroughX402(ch) /\ ch.lastResponse # None
                /\ ch.lastResponse[1].status = 402) =>
                /\ Failed(ch)
                /\ ch.result.error = NotImplementedError
                /\ CallsOf(ch, {"paid"}) = {}
                /\ Len(ch.log) = 1

\* C5 as amended: whenever the first answer is 402 the call fails, no paid
\* retry is sent and one HTTP call was made; the error is the 'not implemented'
\* error when the 402 body parses as JSON, and the parse error of
\* response.json() when it does not.
C5_ChallengeAlwaysFails ==
    \A c \in Chains :
        LET ch == chain[c]
            r == ch.lastResponse[1]
        IN  (ThroughX402(ch) /\ ch.lastResponse # None /\ r.status = 402) =>
                /\ Failed(ch)
                /\ CallsOf(ch, {"paid"}) = {}
                /\ Len(ch.log) = 1
                /\ r.body.json => ch.result.error = NotImplementedError
                /\ ~r.body.json => ch.result.error = RuntimeError("SyntaxError")

\* A 402 with a JSON body has been answered to submitWorkX402, which failed.
C5_Witness ==
    \E c \in Chains :
        /\ ThroughX402(chain[c]) /\ chain[c].op = "submitWorkX402"
        /\ chain[c].lastResponse # None
        /\ chain[c].lastResponse[1].status = 402
        /\ chain[c].lastResponse[1].body.json
        /\ Failed(chain[c])

----------------------------------------------------------------------------
\* C6: claimFaucet() on a client whose network is not devnet fails with
\* ValidationError without any HTTP call; a client constructed without a
\* network has network devnet, and on devnet claimFaucet() goes on to request
\* (its first call goes out at once) and never fails with ValidationError.
C6_FaucetDevnetOnly ==
    \A c \in Chains :
        LET ch == chain[c]
        IN  ch.op = "claimFaucet" =>
                /\ client.network # "devnet" =>
                      /\ FailedWith(ch, "ValidationError")
                      /\ ch.log = <<>>
                      /\ ch.lastResponse = None
                /\ config.network = Undefined => client.network = "devnet"
                /\ client.network = "devnet" =>
                      /\ Len(ch.log) >= 1
                      /\ ~FailedWith(ch, "ValidationError")

\* claimFaucet() has failed on a mainnet client that holds a session.
C6_Witness ==
    \E c \in Chains :
        /\ chain[c].op = "claimFaucet"
        /\ client.network = "mainnet-beta"
        /\ FailedWith(chain[c], "ValidationError")
        /\ authenticated /\ sessionCookie # Undefined

\* claimFaucet() has gone to the network on a client constructed without one.
C6_WitnessDefault ==
    \E c \in Chains :
        /\ chain[c].op = "claimFaucet"
        /\ config.network = Undefined
        /\ Succeeded(chain[c])

----------------------------------------------------------------------------
\* waitForTaskStatus: the time from its start to its settling.
Elapsed(ch) == ch.endTime - ch.startTime

IsTimeoutError(e) ==
    /\ e.name = "ZaphWorkError"
    /\ e.statusCode = None
    /\ e.message[1] = "Timeout waiting for task "

TimedOut(ch) == Failed(ch) /\ IsTimeoutError(ch.result.error)

\* C7 as claimed: when no fetch ever shows the target status, waitForTaskStatus
\* never returns a task, and its timeout error comes no earlier than timeoutMs
\* after the start and, when no fetch took time, less than
\* timeoutMs + pollIntervalMs after the start.
C7_TimeoutWindow ==
    \A c \in Chains :
        LET ch == chain[c]
            a == ch.args[1]
        IN  (ch.op = "waitForTaskStatus" /\ ~ch.sawTarget /\ Settled(ch)) =>
                /\ ~Succeeded(ch)
                /\ TimedOut(ch) =>
                      /\ Elapsed(ch) >= a.timeoutMs
                      /\ ~ch.slowFetch => Elapsed(ch) < a.timeoutMs + a.pollIntervalMs

\* C7 as amended: the upper bound holds when timeoutMs is positive and, besides
\* no fetch taking time, every timer fired exactly when it was due.
C7_TimeoutWindowPositive ==
    \A c \in Chains :
        LET ch == chain[c]
            a == ch.args[1]
        IN  (ch.op = "waitForTaskStatus" /\ ~ch.sawTarget /\ Settled(ch)) =>
                /\ ~Succeeded(ch)
                /\ TimedOut(ch) =>
                      /\ Elapsed(ch) >= a.timeoutMs
                      /\ (a.timeoutMs > 0 /\ ~ch.slowFetch /\ ~ch.lateTimer) =>
                            Elapsed(ch) < a.timeoutMs + a.pollIntervalMs

\* waitForTaskStatus(t1, completed, 3, 2) has timed out after two fetches and
\* two exact timers, 4 after its start.
C7_Witness ==
    \E c \in Chains :
        /\ chain[c].op = "waitForTaskStatus" /\ TimedOut(chain[c])
        /\ chain[c].args[1].timeoutMs = 3
        /\ ~chain[c].slowFetch /\ ~chain[c].lateTimer /\ ~chain[c].sawTarget
        /\ chain[c].sleeps = 2
        /\ Elapsed(chain[c]) = 4

----------------------------------------------------------------------------
\* C8: once a fetch of waitForTaskStatus has shown the target status, the
\* call has returned: with the task of that fetch, without a timer started
\* and without an HTTP call issued after that fetch was answered.
C8_ReturnsOnMatch ==
    \A c \in Chains :
        LET ch == chain[c]
        IN  (ch.op = "waitForTaskStatus" /\ ch.sawTarget) =>
                /\ Succeeded(ch)
                /\ ch.lastResponse # None
                /\ ch.lastResponse[1].body.task # None
                /\ ch.lastResponse[1].body.task[1].status = ch.args[1].targetStatus
                /\ ch.result.value = ch.lastResponse[1].body.task
                /\ Len(ch.log) = ch.lastAt
                /\ ch.sleeps = ch.lastSleeps

\* A fetch after at least one timer has shown the target status.
C8_Witness ==
    \E c \in Chains :
        /\ chain[c].op = "waitForTaskStatus" /\ chain[c].sawTarget
        /\ chain[c].sleeps >= 1
        /\ Succeeded(chain[c])

----------------------------------------------------------------------------
\* The calls of a log that carry createTask's body: resource calls to the
\* endpoint createTask posts to.
CreateCalls(ch) ==
    {i \in CallsOf(ch, {"fetch", "x402", "paid"}) :
        ch.log[i].endpoint \in {<<"api", "tasks", "create">>, <<"api", "x402", "tasks">>}}

WireNumber(n) == [t |-> "number", v |-> n]
WireString(str) == [t |-> "string", v |-> str]
WireNull == [t |-> "null"]

ExampleParams ==
    [title |-> "t", description |-> "d", category |-> "data", paymentAmount |-> Num(5),
     currency |-> Undefined, deadline |-> Undefined, workersNeeded |-> None]

ExampleHolds(p, body) ==
    p = ExampleParams =>
        /\ body.payment_amount = WireNumber(5)
        /\ body.currency = WireString("USDC")
        /\ body.workers_needed = WireNumber(1)

\* C9 as claimed: in the body createTask sends, payment_amount is the number
\* paymentAmount, currency is the given currency or 'USDC' when none is given,
\* workers_needed is the given workersNeeded or 1 when none is given.
C9_BodyMapsGiven ==
    \A c \in Chains :
        LET ch == chain[c]
            p == ch.args[1]
        IN  ch.op \in {"createTask", "createAndFundTask"} =>
                \A i \in CreateCalls(ch) :
                    LET body == ch.log[i].body[1]
                    IN  /\ p.paymentAmount.k = "finite"
                        /\ body.payment_amount = WireNumber(p.paymentAmount.v)
                        /\ body.currency =
                              WireString(IF p.currency = Undefined THEN "USDC"
                                         ELSE p.currency)
                        /\ IF p.workersNeeded = None
                           THEN body.workers_needed = WireNumber(1)
                           ELSE /\ p.workersNeeded[1].k = "finite"
                                /\ body.workers_needed = WireNumber(p.workersNeeded[1].v)
                        /\ ExampleHolds(p, body)

\* C9 as amended: payment_amount is paymentAmount when that is finite and null
\* otherwise; currency is the given currency when that is a non-empty string
\* and 'USDC' otherwise; workers_needed is 1 when workersNeeded is absent, 0 or
\* NaN, null when it is infinite, and workersNeeded otherwise.
C9_BodyMapsTruthy ==
    \A c \in Chains :
        LET ch == chain[c]
            p == ch.args[1]
        IN  ch.op \in {"createTask", "createAndFundTask"} =>
                \A i \in CreateCalls(ch) :
                    LET body == ch.log[i].body[1]
                        w == p.workersNeeded
                    IN  /\ body.payment_amount =
                              IF p.paymentAmount.k = "finite"
                              THEN WireNumber(p.paymentAmount.v) ELSE WireNull
                        /\ body.currency =
                              WireString(IF p.currency \in {Undefined, ""} THEN "USDC"
                                         ELSE p.currency)
                        /\ body.workers_needed =
                              IF w = None \/ w[1].k = "nan" \/ w[1] = Num(0)
                              THEN WireNumber(1)
                              ELSE IF w[1].k = "inf" THEN WireNull
                              ELSE WireNumber(w[1].v)
                        /\ ExampleHolds(p, body)

\* createTask has sent the body of a call that gave workersNeeded 0 and
\* currency "".
C9_Witness ==
    \E c \in Chains :
        /\ chain[c].op = "createTask"
        /\ chain[c].args[1].workersNeeded = Some(Num(0))
        /\ chain[c].args[1].currency = ""
        /\ CreateCalls(chain[c]) # {}

\* createTask has sent the body of the example call.
C9_WitnessExample ==
    \E c \in Chains :
        /\ chain[c].op = "createTask"
        /\ chain[c].args[1] = ExampleParams
        /\ CreateCalls(chain[c]) # {}

----------------------------------------------------------------------------
FundCalls(ch) ==
    {i \in CallsOf(ch, {"fetch", "x402", "paid"}) :
        Len(ch.log[i].endpoint) = 4 /\ ch.log[i].endpoint[4] = "fund"}

----------------------------------------------------------------------------
\* The error a failing answer r makes request throw: the transport's error,
\* the API error of an answer that is not ok, or the parser's error.
RequestFailure(r) ==
    IF r.status = NetworkFailure THEN RuntimeError("TypeError")
    ELSE IF ~ResponseOk(r) THEN ApiError(r)
    ELSE RuntimeError("SyntaxError")

\* The answer received last fails the request that is not retried.
FailingAnswer(r) ==
    \/ r.status = NetworkFailure
    \/ ~ResponseOk(r) /\ r.status # 401
    \/ ResponseOk(r) /\ ~r.body.json

LastCall(ch) == ch.log[Len(ch.log)]

\* The fund call of createAndFundTask was the last call and got answer r.
FundAnswered(ch) ==
    /\ ch.op = "createAndFundTask" /\ ch.method = "fundTask"
    /\ Len(ch.log) > 0 /\ LastCall(ch).kind = "fetch"
    /\ ch.lastResponse # None
    /\ ch.lastAt < Len(ch.log)

\* C11: when the fund call of createAndFundTask gets a failing answer, the
\* call fails with exactly the error request throws for that answer, no
\* result is returned, and every resource call of the chain is a create or a
\* fund POST (nothing is cancelled or deleted); when createAndFundTask fails
\* without create having returned a task, no fund call was issued.
C11_FundFailurePropagates ==
    \A c \in Chains :
        LET ch == chain[c]
        IN  ch.op = "createAndFundTask" =>
                /\ (FundAnswered(ch) /\ FailingAnswer(ch.lastResponse[1])) =>
                      /\ Failed(ch)
                      /\ ch.result.error = RequestFailure(ch.lastResponse[1])
                      /\ ch.created # None /\ ch.created[1].task # None
                /\ (Failed(ch) /\ FundCalls(ch) # {}) =>
                      /\ \A i \in CallsOf(ch, {"fetch", "x402", "paid"}) :
                            /\ i \in CreateCalls(ch) \cup FundCalls(ch)
                            /\ ch.log[i].method = "POST"
                      /\ \A i \in FundCalls(ch) :
                            ch.log[i].endpoint =
                                <<"api", "tasks", ch.created[1].task[1].id, "fund">>
                /\ (Failed(ch) /\ (ch.created = None \/ ch.created[1].task = None)) =>
                      FundCalls(ch) = {}

\* createAndFundTask has failed with the server's error text of a 500 answer
\* to its fund call, after create returned task t1.
C11_Witness ==
    \E c \in Chains :
        /\ chain[c].op = "createAndFundTask" /\ Failed(chain[c])
        /\ FundAnswered(chain[c])
        /\ chain[c].lastResponse[1].status = 500
        /\ chain[c].result.error = ZaphWorkError(<<"denied">>, Some(500))
        /\ chain[c].created[1].task[1].id = "t1"

\* createAndFundTask has failed because create was answered 500.
C11_WitnessCreateFails ==
    \E c \in Chains :
        /\ chain[c].op = "createAndFundTask" /\ Failed(chain[c])
        /\ chain[c].created = None
        /\ CreateCalls(chain[c]) # {}
        /\ chain[c].lastResponse[1].status = 500

----------------------------------------------------------------------------
\* The calls of a log that are not part of a handshake.
ResourceCalls(ch) == CallsOf(ch, {"fetch", "x402", "paid"})

\* C12: a call to an endpoint outside /api/x402/ always goes out on the
\* session path, for either value of useX402: it is request's own fetch, it is
\* sent only while the client is authenticated (the handshake has run if
\* needed), and it carries the stored session cookie when there is one.  The
\* payment dispatcher is reached through request only for an endpoint under
\* /api/x402/ on a client with useX402.
C12_FlagOnlyUnderPrefix ==
    \A c \in Chains :
        LET ch == chain[c]
        IN  /\ \A i \in ResourceCalls(ch) :
                  /\ ~IsX402Endpoint(ch.log[i].endpoint) =>
                        /\ ch.log[i].kind = "fetch"
                        /\ ~ch.log[i].payment
                  /\ (ch.log[i].kind # "fetch" /\ ch.op \notin OneX402Ops) =>
                        /\ IsX402Endpoint(ch.log[i].endpoint)
                        /\ client.useX402
                  /\ (ch.log[i].kind = "fetch" /\ IsX402Endpoint(ch.log[i].endpoint)) =>
                        ~client.useX402
                  /\ (ch.log[i].kind = "fetch" /\ i = 1) => ch.n401 > 0 \/ authenticated
                  /\ (ch.log[i].kind = "fetch" /\ i > 1) =>
                        ch.log[i - 1].kind \in {"session", "fetch", "x402"}
            /\ ch.pc = "fetch" =>
                  /\ authenticated
                  /\ LastCall(ch).cookie = CookieHeader(sessionCookie)

\* On a client with useX402 a call to /api/tasks/<id> is pending on the
\* session path, after a handshake, with the session cookie attached.
C12_Witness ==
    \E c \in Chains :
        /\ client.useX402
        /\ chain[c].op = "getTask" /\ chain[c].pc = "fetch"
        /\ Len(chain[c].log) = 3
        /\ chain[c].log[2].kind = "session"
        /\ LastCall(chain[c]).cookie = "s1"

\* The same on a client without useX402.
C12_WitnessFlagOff ==
    \E c \in Chains :
        /\ ~client.useX402 /\ client.state = "ready"
        /\ chain[c].op = "getTask" /\ chain[c].pc = "fetch"
        /\ Len(chain[c].log) = 3
        /\ chain[c].log[2].kind = "session"
        /\ LastCall(chain[c]).cookie = "s1"

----------------------------------------------------------------------------
\* The chain is inside request's delegation to the payment dispatcher.
Delegated(ch) ==
    /\ client.useX402
    /\ ch.op \in {"createTask", "createAndFundTask"} /\ ch.method = "createTask"
    /\ ch.op # "none"

\* C13: request for /api/x402/tasks on a client with useX402 runs no
\* handshake and sends its call without a Cookie header; and no step that
\* starts the delegated call or handles its response, whatever the status,
\* changes the authenticated flag or the stored cookie.
C13_DelegationLeavesSession ==
    /\ [](\A c \in Chains :
            Delegated(chain[c]) =>
                /\ Len(chain[c].log) <= 1
                /\ \A i \in 1..Len(chain[c].log) :
                      /\ chain[c].log[i].kind = "x402"
                      /\ chain[c].log[i].endpoint = <<"api", "x402", "tasks">>
                      /\ chain[c].log[i].cookie = Undefined)
    /\ [][\A c \in Chains :
            (Delegated(chain'[c]) \/ (Delegated(chain[c]) /\ chain[c].pc = "x402")) =>
                /\ authenticated' = authenticated
                /\ sessionCookie' = sessionCookie]_vars

\* createTask on a client with useX402 that holds session s1 has been
\* answered 401: it has failed after its one call, sent without a cookie, and
\* the client still holds the session.
C13_Witness ==
    \E c \in Chains :
        /\ Delegated(chain[c]) /\ chain[c].op = "createTask"
        /\ FailedWith(chain[c], "ZaphWorkError")
        /\ chain[c].result.error.statusCode = Some(401)
        /\ chain[c].lastResponse[1].status = 401
        /\ Len(chain[c].log) = 1 /\ chain[c].log[1].cookie = Undefined
        /\ authenticated /\ sessionCookie = "s1"

----------------------------------------------------------------------------
\* The session cookie a session-create response carries, "undefined" if none.
CookieOf(r) ==
    LET match == ExtractSessionCookie(r.setCookie)
    IN  IF match = None THEN Undefined ELSE match[1]

\* The response received last is the successful answer of a handshake that
\* has just completed: authenticate() has returned, or request has sent its
\* call right after the handshake.
HandshakeDone(ch) ==
    /\ ch.lastResponse # None /\ ResponseOk(ch.lastResponse[1])
    /\ \/ ch.op = "authenticate" /\ Succeeded(ch)
       \/ /\ ch.pc = "fetch" /\ Len(ch.log) >= 2
          /\ ch.log[Len(ch.log) - 1].kind = "session"

\* C14: after a successful handshake the client is authenticated and the
\* stored cookie is the one that handshake's response carried, absent when it
\* carried none: a cookie of an earlier handshake is not kept.
C14_HandshakeReplacesSession ==
    \A c \in Chains :
        HandshakeDone(chain[c]) =>
            /\ authenticated
            /\ sessionCookie = CookieOf(chain[c].lastResponse[1])

----------------------------------------------------------------------------
\* The call the response received last was the answer to: the last call of
\* the log, or the one before it when the chain has issued a call since.
Answered(ch) ==
    IF ch.pc \in {"idle", "sleep"} THEN ch.log[Len(ch.log)]
    ELSE ch.log[Len(ch.log) - 1]

Got401(ch) == ch.lastResponse # None /\ ch.lastResponse[1].status = 401

SessionCleared == ~authenticated /\ sessionCookie = Undefined

\* C15 as claimed: whenever the response received last has status 401, the
\* authenticated flag is false and the stored cookie is absent.
C15_UnauthorizedClears ==
    \A c \in Chains : Got401(chain[c]) => SessionCleared

\* C15 as amended: when request's own fetch is answered 401, the flag and the
\* cookie are cleared together before the next call, the wallet-connect call
\* of the re-handshake, goes out; a 401 answer to a handshake call or to a
\* call of requestWithX402Payment fails the call and changes neither.
C15_UnauthorizedClearsInRequest ==
    /\ [](\A c \in Chains :
            Got401(chain[c]) =>
                IF Answered(chain[c]).kind = "fetch"
                THEN /\ SessionCleared
                     /\ chain[c].pc = "connect"
                     /\ LastCall(chain[c]).cookie = Undefined
                ELSE Failed(chain[c]))
    /\ [][\A c \in Chains :
            (chain[c].pc \in {"connect", "session", "x402", "paid"} /\ Got401(chain'[c])) =>
                /\ authenticated' = authenticated
                /\ sessionCookie' = sessionCookie]_vars

\* getTask sent its call with cookie s1, was answered 401, and the session is
\* cleared while the wallet-connect call of the re-handshake is pending.
C15_Witness ==
    \E c \in Chains :
        /\ chain[c].op = "getTask" /\ Got401(chain[c])
        /\ Len(chain[c].log) = 2
        /\ chain[c].log[1].kind = "fetch" /\ chain[c].log[1].cookie = "s1"
        /\ chain[c].pc = "connect"
        /\ SessionCleared

\* submitWorkX402 was answered 401 on a client that holds session s1, and
\* the client still holds it.
C15_WitnessX402 ==
    \E c \in Chains :
        /\ chain[c].op = "submitWorkX402" /\ Got401(chain[c])
        /\ Failed(chain[c])
        /\ authenticated /\ sessionCookie = "s1"

----------------------------------------------------------------------------
\* The chain's first call has gone out on the session path.
StartsOnSessionPath(ch) ==
    /\ ch.op \notin {"none", "authenticate"}
    /\ Len(ch.log) >= 1 /\ ch.log[1].kind \in {"connect", "fetch"}

\* C16: a call that starts on the session path of a client that is not
\* authenticated sends wallet-connect first and its resource request only
\* after connect and session-create; when that handshake fails the call fails
\* with AuthenticationError and no resource request is in the log; a call
\* that starts on an authenticated client sends its resource request as its
\* first call.
C16_HandshakeFirst ==
    /\ [](\A c \in Chains :
            LET ch == chain[c]
            IN  (StartsOnSessionPath(ch) /\ ch.log[1].kind = "connect") =>
                    /\ \A i \in CallsOf(ch, {"fetch"}) :
                          /\ i >= 3
                          /\ ch.log[2].kind = "session"
                    /\ (Settled(ch) /\ ch.n401 = 0
                          /\ Answered(ch).kind \in {"connect", "session"}) =>
                          /\ FailedWith(ch, "AuthenticationError")
                          /\ CallsOf(ch, {"fetch"}) = {}
                          /\ ~authenticated)
    /\ [][\A c \in Chains :
            (Idle(c) /\ StartsOnSessionPath(chain'[c])) =>
                /\ Len(chain'[c].log) = 1
                /\ chain'[c].log[1].kind = IF authenticated THEN "fetch" ELSE "connect"]_vars

\* getTask on a client that was not authenticated has its resource request
\* pending after connect and session-create.
C16_Witness ==
    \E c \in Chains :
        /\ chain[c].op = "getTask" /\ chain[c].pc = "fetch"
        /\ Len(chain[c].log) = 3
        /\ chain[c].log[1].kind = "connect" /\ chain[c].log[2].kind = "session"
        /\ chain[c].log[3].kind = "fetch"

\* fundTask has failed with AuthenticationError in its handshake.
C16_WitnessHandshakeFails ==
    \E c \in Chains :
        /\ chain[c].op = "fundTask" /\ FailedWith(chain[c], "AuthenticationError")
        /\ Len(chain[c].log) = 2 /\ chain[c].log[2].kind = "session"

\* getTask on an authenticated client has its resource request pending as
\* its first call.
C16_WitnessAuthenticated ==
    \E c \in Chains :
        /\ chain[c].op = "getTask" /\ chain[c].pc = "fetch"
        /\ Len(chain[c].log) = 1 /\ chain[c].log[1].kind = "fetch"

----------------------------------------------------------------------------
\* request's own fetch was answered last, with a status that is neither 2xx
\* nor 401.
ErrorAnswered(ch) ==
    /\ ch.lastResponse # None /\ Len(ch.log) >= 1
    /\ ch.pc = "idle" /\ LastCall(ch).kind = "fetch"
    /\ ch.lastResponse[1].status \notin {NetworkFailure, 401}
    /\ ~ResponseOk(ch.lastResponse[1])

StatusLine(r) == <<"Request failed: ", StatusText(r.status)>>

\* C17: when request's fetch is answered with a status that is neither 2xx
\* nor 401, request fails with a ZaphWorkError that carries the status and
\* whose message is the body's error text when the body is JSON with one, and
\* the HTTP status line when the body is JSON without an error field and when
\* the body is not parseable JSON.
C17_ErrorTextOrStatusLine ==
    \A c \in Chains :
        LET ch == chain[c]
            r == ch.lastResponse[1]
        IN  ErrorAnswered(ch) =>
                /\ FailedWith(ch, "ZaphWorkError")
                /\ ch.result.error.statusCode = Some(r.status)
                /\ ch.result.error.message =
                      IF r.body.json /\ TruthyStr(r.body.error) THEN <<r.body.error>>
                      ELSE StatusLine(r)

----------------------------------------------------------------------------
\* A transport failure, or a status that is neither 2xx nor 401.
NotRetried(r) ==
    \/ r.status = NetworkFailure
    \/ ~ResponseOk(r) /\ r.status # 401

\* C18: when request's fetch gets a transport failure or an error status
\* other than 401, the step that handles it issues no call, fails the public
\* method with the error of that answer, and changes neither the
\* authenticated flag nor the stored cookie; so a method that makes one
\* request has made one attempt for the original call and one per 401.
C18_NoRetryButUnauthorized ==
    /\ [](\A c \in Chains :
            LET ch == chain[c]
            IN  (ch.op \in OneRequestOps /\ Failed(ch) /\ Len(ch.log) >= 1
                    /\ LastCall(ch).kind = "fetch" /\ NotRetried(ch.lastResponse[1])) =>
                    /\ Cardinality(CallsOf(ch, {"fetch"})) = 1 + ch.n401
                    /\ ch.result.error = RequestFailure(ch.lastResponse[1]))
    /\ [][\A c \in Chains :
            (chain[c].pc = "fetch" /\ chain'[c] # chain[c]
                /\ chain'[c].lastResponse # chain[c].lastResponse
                /\ NotRetried(chain'[c].lastResponse[1])) =>
                /\ chain'[c].log = chain[c].log
                /\ Failed(chain'[c])
                /\ chain'[c].result.error = RequestFailure(chain'[c].lastResponse[1])
                /\ authenticated' = authenticated
                /\ sessionCookie' = sessionCookie]_vars

\* getTask on a client that holds session s1 has failed after one attempt
\* that was answered 500, and the client still holds the session.
C18_Witness ==
    \E c \in Chains :
        /\ chain[c].op = "getTask" /\ FailedWith(chain[c], "ZaphWorkError")
        /\ chain[c].lastResponse[1].status = 500
        /\ Len(chain[c].log) = 1 /\ chain[c].log[1].cookie = "s1"
        /\ authenticated /\ sessionCookie = "s1"

\* The same after a transport failure.
C18_WitnessTransport ==
    \E c \in Chains :
        /\ chain[c].op = "getTask" /\ FailedWith(chain[c], "TypeError")
        /\ chain[c].lastResponse[1].status = NetworkFailure
        /\ Len(chain[c].log) = 1 /\ chain[c].log[1].cookie = "s1"
        /\ authenticated /\ sessionCookie = "s1"

----------------------------------------------------------------------------
\* The wallet-connect call was answered last, with a status that is not 2xx.
ConnectRefused(ch) ==
    /\ ch.lastResponse # None /\ Len(ch.log) >= 1
    /\ IF ch.pc = "idle" THEN TRUE ELSE Len(ch.log) >= 2
    /\ Answered(ch).kind = "connect"
    /\ ch.lastResponse[1].status # NetworkFailure
    /\ ~ResponseOk(ch.lastResponse[1])

\* C19: when the wallet-connect call is answered with a status that is not
\* 2xx, authenticate fails with AuthenticationError('Failed to connect
\* wallet'), status 401, and the connect call stays the last call of the log:
\* no session-create call follows it.
C19_ConnectRefusedFails ==
    \A c \in Chains :
        LET ch == chain[c]
        IN  ConnectRefused(ch) =>
                /\ Failed(ch)
                /\ ch.result.error = AuthenticationError(<<"Failed to connect wallet">>)
                /\ ch.result.error.statusCode = Some(401)
                /\ LastCall(ch).kind = "connect"
                /\ \A i \in CallsOf(ch, {"session"}) : i < Len(ch.log) - 1

\* authenticate() has failed after its wallet-connect call was answered 500.
C19_Witness ==
    \E c \in Chains :
        /\ chain[c].op = "authenticate" /\ ConnectRefused(chain[c])
        /\ chain[c].lastResponse[1].status = 500
        /\ FailedWith(chain[c], "AuthenticationError")
        /\ Len(chain[c].log) = 1

----------------------------------------------------------------------------
\* C20: a handshake whose session-create call succeeded leaves the client
\* authenticated, with or without a cookie in the response; when request ran
\* that handshake and the response carried no cookie, the client holds no
\* cookie; and a call that request has sent while the client is authenticated
\* and holds no cookie carries no Cookie header.
C20_AuthenticatedWithoutCookie ==
    \A c \in Chains :
        LET ch == chain[c]
        IN  /\ HandshakeDone(ch) => authenticated
            /\ (HandshakeDone(ch) /\ ch.pc = "fetch"
                  /\ CookieOf(ch.lastResponse[1]) = Undefined) =>
                  sessionCookie = Undefined
            /\ (ch.pc = "fetch" /\ authenticated /\ sessionCookie = Undefined) =>
                  /\ LastCall(ch).kind = "fetch"
                  /\ LastCall(ch).cookie = Undefined

\* A session-create response without Set-Cookie has made the client
\* authenticated with no cookie, and getTask's request is pending without a
\* Cookie header.
C20_Witness ==
    \E c \in Chains :
        /\ chain[c].op = "getTask" /\ chain[c].pc = "fetch"
        /\ HandshakeDone(chain[c])
        /\ chain[c].lastResponse[1].setCookie = NoSetCookie
        /\ authenticated /\ sessionCookie = Undefined
        /\ LastCall(chain[c]).cookie = Undefined

\* A later call on the client that is authenticated with no cookie is
\* pending as the first call of its chain, without a Cookie header.
C20_WitnessLaterCall ==
    \E c \in Chains :
        /\ chain[c].op = "fundTask" /\ chain[c].pc = "fetch"
        /\ Len(chain[c].log) = 1
        /\ authenticated /\ sessionCookie = Undefined
        /\ LastCall(chain[c]).cookie = Undefined

----------------------------------------------------------------------------
\* The call failed in a handshake: its last call is a handshake call.
HandshakeFailed(ch) ==
    Failed(ch) /\ Len(ch.log) >= 1 /\ LastCall(ch).kind \in {"connect", "session"}

Wrapped(name) == AuthenticationError(<<"Authentication failed: ", name>>)

\* C21: a handshake that fails fails with AuthenticationError: a transport
\* failure and the parse error of an unparseable error body of session-create
\* are wrapped ('Authentication failed: ...'); the AuthenticationError thrown
\* for a refused connect or a refused session-create, the latter with the
\* server's error text when there is one, arrives as it was thrown.
C21_AuthFailuresTyped ==
    \A c \in Chains :
        LET ch == chain[c]
            r == ch.lastResponse[1]
        IN  HandshakeFailed(ch) =>
                /\ IsZaphWorkError(ch.result.error)
                /\ ch.result.error =
                      IF r.status = NetworkFailure THEN Wrapped("TypeError")
                      ELSE IF LastCall(ch).kind = "connect"
                      THEN AuthenticationError(<<"Failed to connect wallet">>)
                      ELSE IF ~r.body.json THEN Wrapped("SyntaxError")
                      ELSE IF TruthyStr(r.body.error)
                      THEN AuthenticationError(<<r.body.error>>)
                      ELSE AuthenticationError(<<"Failed to create session">>)

\* authenticate() has failed with the wrapped parse error of a session-create
\* answer whose error body is not JSON.
C21_Witness ==
    \E c \in Chains :
        /\ chain[c].op = "authenticate" /\ HandshakeFailed(chain[c])
        /\ LastCall(chain[c]).kind = "session"
        /\ ~chain[c].lastResponse[1].body.json
        /\ chain[c].result.error = Wrapped("SyntaxError")

\* authenticate() has failed with the server's error text, unchanged.
C21_WitnessTyped ==
    \E c \in Chains :
        /\ chain[c].op = "authenticate" /\ HandshakeFailed(chain[c])
        /\ chain[c].result.error = AuthenticationError(<<"denied">>)

----------------------------------------------------------------------------
\* Public methods that are one resource method on the session path.
SessionMethodOps(useX402) ==
    OneRequestOps \cup (IF useX402 THEN {} ELSE {"createTask"})

SessionUnchanged == authenticated' = authenticated /\ sessionCookie' = sessionCookie

\* C22: a session-path resource method called on an authenticated client
\* sends its request as its only call and changes no session state in doing
\* so; when that request is answered 2xx with a JSON body the method returns,
\* the log still holds that one call, none of it a handshake call, and the
\* authenticated flag and the cookie are as they were.
C22_OneCallWhenAuthenticated ==
    /\ [][\A c \in Chains :
            (Idle(c) /\ authenticated /\ chain'[c] # chain[c]
                /\ chain'[c].op \in SessionMethodOps(client.useX402)
                /\ chain'[c].pc # "idle") =>
                /\ Len(chain'[c].log) = 1
                /\ chain'[c].log[1].kind = "fetch"
                /\ SessionUnchanged]_vars
    /\ [][\A c \in Chains :
            (chain[c].pc = "fetch" /\ chain[c].op \in SessionMethodOps(client.useX402)
                /\ Len(chain[c].log) = 1
                /\ chain'[c].lastResponse # None
                /\ chain'[c] # chain[c]
                /\ ResponseOk(chain'[c].lastResponse[1])
                /\ chain'[c].lastResponse[1].body.json) =>
                /\ Succeeded(chain'[c])
                /\ chain'[c].log = chain[c].log
                /\ CallsOf(chain'[c], {"connect", "session"}) = {}
                /\ SessionUnchanged]_vars

\* fundTask on a client that holds session s1 has returned after its one
\* call, sent with that cookie, and the client still holds the session.
C22_Witness ==
    \E c \in Chains :
        /\ chain[c].op = "fundTask" /\ Succeeded(chain[c])
        /\ Len(chain[c].log) = 1 /\ chain[c].log[1].kind = "fetch"
        /\ chain[c].log[1].cookie = "s1"
        /\ authenticated /\ sessionCookie = "s1"

----------------------------------------------------------------------------
\* Two call chains on one client: the caller starts a second public method
\* while the first is suspended in a fetch.

\* Outbound HTTP calls one chain of the concurrent specification may issue.
MaxConcCalls == 4

InitConc ==
    /\ config = Config(<<"h">>, "validKey", "devnet", "false")
    /\ client = constructor(config)
    /\ authenticated = FALSE
    /\ sessionCookie = Undefined
    /\ chain = [c \in {1, 2} |-> IdleChain]
    /\ now = 0

ConcBound(c) == Len(chain'[c].log) <= MaxConcCalls

NextConc ==
    \/ \E c \in DOMAIN chain : CallGetTask(c, "t1") /\ ConcBound(c)
    \/ \E c \in DOMAIN chain, r \in ConnectResponses : ConnectResponse(c, r) /\ ConcBound(c)
    \/ \E c \in DOMAIN chain, r \in SessionResponses : SessionResponse(c, r) /\ ConcBound(c)
    \/ \E c \in DOMAIN chain :
          \E r \in ResourceResponses(chain[c].method) :
              RequestResponse(c, r) /\ ConcBound(c)

SpecConc == InitConc /\ [][NextConc]_vars

----------------------------------------------------------------------------
\* C23: with two chains on one client nothing guards the session: a 401
\* answer to a chain's request clears the authenticated flag and the cookie
\* and starts a handshake whatever cookie is stored at that moment and
\* whatever the other chain is doing, and a chain that finds the flag false
\* starts a handshake even while the other chain's handshake is in flight.
C23_SessionUnguarded ==
    /\ [][\A c \in Chains :
            (chain[c].pc = "fetch" /\ chain'[c].n401 = chain[c].n401 + 1) =>
                /\ ~authenticated' /\ sessionCookie' = Undefined
                /\ chain'[c].pc = "connect"]_vars
    /\ [][\A c \in Chains :
            (Idle(c) /\ ~authenticated /\ ~Idle(c)') => chain'[c].pc = "connect"]_vars

\* Chain d re-handshook after a 401 and has its retried request pending with
\* the new cookie s2; then chain c was answered 401 for the request it sent
\* with the older cookie s1, and the session that d established is cleared.
C23_Witness ==
    \E c, d \in Chains :
        /\ c # d
        /\ Got401(chain[c]) /\ chain[c].pc = "connect"
        /\ Answered(chain[c]).kind = "fetch" /\ Answered(chain[c]).cookie = "s1"
        /\ chain[d].pc = "fetch" /\ Len(chain[d].log) >= 2
        /\ chain[d].log[Len(chain[d].log) - 1].kind = "session"
        /\ CookieOf(chain[d].lastResponse[1]) = "s2"
        /\ LastCall(chain[d]).cookie = "s2"
        /\ SessionCleared

\* Both chains were answered 401 for a request sent with cookie s1, and both
\* have the wallet-connect call of a re-handshake pending.
C23_WitnessBothHandshake ==
    \E c, d \in Chains :
        /\ c # d
        /\ \A e \in {c, d} :
              /\ Got401(chain[e]) /\ chain[e].pc = "connect"
              /\ Answered(chain[e]).kind = "fetch" /\ Answered(chain[e]).cookie = "s1"

----------------------------------------------------------------------------
\* The step is the end of a successful handshake of chain c.
HandshakeCompletes(c) ==
    /\ chain[c].pc = "session"
    /\ chain'[c].lastResponse # None /\ ResponseOk(chain'[c].lastResponse[1])
    /\ authenticated'
    /\ sessionCookie' \in {sessionCookie, CookieOf(chain'[c].lastResponse[1])}

\* The step is request of chain c handling a 401.
UnauthorizedHandled(c) ==
    /\ chain[c].pc = "fetch"
    /\ Got401(chain'[c])
    /\ ~authenticated' /\ sessionCookie' = Undefined

\* C24: whenever a session cookie is stored the client is authenticated; and
\* a step changes the flag or the cookie only as the end of a successful
\* handshake, which sets the flag, or as request handling a 401, which clears
\* both.
C24_CookieImpliesAuthenticated ==
    /\ [](sessionCookie # Undefined => authenticated)
    /\ [][(authenticated' # authenticated \/ sessionCookie' # sessionCookie) =>
            \E c \in Chains : HandshakeCompletes(c) \/ UnauthorizedHandled(c)]_vars

\* After a 401 cleared the session, the re-handshake has stored cookie s2 and
\* the client is authenticated again.
C24_Witness ==
    \E c \in Chains :
        /\ chain[c].n401 = 1 /\ chain[c].pc = "fetch"
        /\ chain[c].log[1].cookie = "s1"
        /\ sessionCookie = "s2" /\ authenticated

----------------------------------------------------------------------------
\* One chain of getTask with room for several 401 answers in a row.

\* 401 answers to the resource fetches of one chain, and the calls it may issue.
MaxRetry401 == 3
MaxRetryCalls == 10

InitRetry ==
    /\ config = Config(<<"h">>, "validKey", "devnet", "false")
    /\ client = constructor(config)
    /\ authenticated = FALSE
    /\ sessionCookie = Undefined
    /\ chain = [c \in {1} |-> IdleChain]
    /\ now = 0

CommitRetry(c, s) ==
    /\ Len(s.ch.log) <= MaxRetryCalls
    /\ authenticated' = s.authenticated
    /\ sessionCookie' = s.sessionCookie
    /\ chain' = [chain EXCEPT ![c] = s.ch]
    /\ now' = s.now
    /\ UNCHANGED <<config, client>>

RetryCallGetTask(c, taskId) ==
    /\ CanCall(c)
    /\ CommitRetry(c, getTask(Begin(c, "getTask", taskId), taskId))

RetryConnectResponse(c, r) ==
    /\ chain[c].pc = "connect"
    /\ CommitRetry(c, authenticateConnected(Received(c, r), r))

RetrySessionResponse(c, r) ==
    /\ chain[c].pc = "session"
    /\ CommitRetry(c, authenticateSession(Received(c, r), r))

RetryRequestResponse(c, r) ==
    /\ chain[c].pc = "fetch"
    /\ r.status = 401 => chain[c].n401 < MaxRetry401
    /\ CommitRetry(c, requestResponded(Received(c, r), r))

NextRetry ==
    \/ \E c \in DOMAIN chain : RetryCallGetTask(c, "t1")
    \/ \E c \in DOMAIN chain, r \in ConnectResponses : RetryConnectResponse(c, r)
    \/ \E c \in DOMAIN chain, r \in SessionResponses : RetrySessionResponse(c, r)
    \/ \E c \in DOMAIN chain :
          \E r \in ResourceResponses(chain[c].method) : RetryRequestResponse(c, r)

SpecRetry == InitRetry /\ [][NextRetry]_vars

----------------------------------------------------------------------------
\* The kind of the i-th call of a request that started on an authenticated
\* client and met only 401 answers and successful handshakes so far:
\* attempt, connect, session, attempt, connect, session, attempt, ...
RetryKind(i) ==
    CASE i % 3 = 1 -> "fetch"
      [] i % 3 = 2 -> "connect"
      [] OTHER -> "session"

\* getTask called on an authenticated client.
RetryChain(ch) == ch.op = "getTask" /\ Len(ch.log) >= 1 /\ ch.log[1].kind = "fetch"

\* What getTask does with the answer r of its last attempt.
OutcomeOf(r) ==
    IF FailingAnswer(r) THEN [kind |-> "error", error |-> RequestFailure(r)]
    ELSE [kind |-> "ok", value |-> r.body.task]

\* C25: request called on an authenticated client alternates attempts and
\* handshakes: its calls are attempt, connect, session, attempt, ..., one
\* handshake after each 401.  When an attempt is answered non-401 after k
\* 401 answers, the call has ended with the outcome of that attempt after
\* exactly k + 1 attempts and k handshakes.  The call is still running only
\* right after a 401 answer or a successful handshake answer: a non-401
\* answer to an attempt, or a failed handshake, has ended it.
C25_RetryPerUnauthorized ==
    \A c \in Chains :
        LET ch == chain[c]
            k == ch.n401
        IN  RetryChain(ch) =>
                /\ \A i \in 1..Len(ch.log) : ch.log[i].kind = RetryKind(i)
                /\ (Settled(ch) /\ LastCall(ch).kind = "fetch") =>
                      /\ ch.lastResponse[1].status # 401
                      /\ Cardinality(CallsOf(ch, {"fetch"})) = k + 1
                      /\ Cardinality(CallsOf(ch, {"connect"})) = k
                      /\ Cardinality(CallsOf(ch, {"session"})) = k
                      /\ Len(ch.log) = 3 * k + 1
                      /\ ch.result = OutcomeOf(ch.lastResponse[1])
                /\ (ch.lastResponse # None /\ ~Settled(ch)) =>
                      \/ ch.lastResponse[1].status = 401 /\ ch.pc = "connect"
                             /\ Answered(ch).kind = "fetch"
                      \/ ResponseOk(ch.lastResponse[1])
                             /\ Answered(ch).kind \in {"connect", "session"}
                /\ (Settled(ch) /\ LastCall(ch).kind # "fetch") =>
                      /\ FailedWith(ch, "AuthenticationError")
                      /\ Cardinality(CallsOf(ch, {"fetch"})) = k

\* getTask on an authenticated client was answered 401 twice and then 200:
\* it has returned after three attempts and two handshakes.
C25_Witness ==
    \E c \in Chains :
        /\ RetryChain(chain[c]) /\ Succeeded(chain[c])
        /\ chain[c].n401 = 2
        /\ Len(chain[c].log) = 7
        /\ chain[c].lastResponse[1].status = 200

----------------------------------------------------------------------------
\* The retried request of chain ch is pending right after its re-handshake.
RetryPending(ch) ==
    /\ ch.pc = "fetch" /\ ch.n401 >= 1 /\ Len(ch.log) >= 2
    /\ ch.log[Len(ch.log) - 1].kind = "session"
    /\ ch.lastResponse # None

\* C26: the request retried after a 401 carries the cookie that the
\* re-handshake's session-create response set, and no Cookie header when that
\* response set none: never a cookie from before the 401.
C26_RetryCarriesNewSession ==
    \A c \in Chains :
        RetryPending(chain[c]) =>
            /\ LastCall(chain[c]).cookie = CookieOf(chain[c].lastResponse[1])
            /\ LastCall(chain[c]).cookie = CookieHeader(sessionCookie)

\* A request sent with cookie s1 was answered 401, the re-handshake set no
\* session cookie, and the retry is pending without a Cookie header.
C26_Witness ==
    \E c \in Chains :
        /\ RetryPending(chain[c])
        /\ chain[c].log[Len(chain[c].log) - 3].kind = "fetch"
        /\ chain[c].log[Len(chain[c].log) - 3].cookie = "s1"
        /\ CookieOf(chain[c].lastResponse[1]) = Undefined
        /\ LastCall(chain[c]).cookie = Undefined

\* The same with a re-handshake that set cookie s2: the retry carries s2.
C26_WitnessNewCookie ==
    \E c \in Chains :
        /\ RetryPending(chain[c])
        /\ chain[c].log[Len(chain[c].log) - 3].kind = "fetch"
        /\ chain[c].log[Len(chain[c].log) - 3].cookie = "s1"
        /\ LastCall(chain[c]).cookie = "s2"

----------------------------------------------------------------------------
\* The re-handshake that followed a 401 has failed.
RehandshakeFailed(ch) == HandshakeFailed(ch) /\ ch.n401 >= 1

\* C27: when the re-handshake that follows a 401 fails, the call has failed
\* with AuthenticationError, no attempt was sent after the one that was
\* answered 401, and the client is not authenticated and holds no cookie; the
\* next call on the session path starts with the wallet-connect call.
C27_RehandshakeFailureEnds ==
    /\ [](\A c \in Chains :
            LET ch == chain[c]
            IN  RehandshakeFailed(ch) =>
                    /\ FailedWith(ch, "AuthenticationError")
                    /\ ch.op \in OneRequestOps =>
                          Cardinality(CallsOf(ch, {"fetch"})) = ch.n401
                    /\ \E i \in CallsOf(ch, {"fetch"}) :
                          /\ Len(ch.log) - i \in {1, 2}
                          /\ ch.log[i + 1].kind = "connect"
                          /\ \A j \in CallsOf(ch, {"fetch"}) : j <= i
                    /\ SessionCleared)
    /\ [][\A c \in Chains :
            (RehandshakeFailed(chain[c]) /\ StartsOnSessionPath(chain'[c])
                /\ chain'[c] # chain[c]) =>
                /\ Len(chain'[c].log) = 1
                /\ chain'[c].log[1].kind = "connect"]_vars

\* getTask sent with cookie s1 was answered 401 and the session-create call
\* of the re-handshake was refused: the call has failed and the session is
\* cleared.
C27_Witness ==
    \E c \in Chains :
        /\ chain[c].op = "getTask" /\ RehandshakeFailed(chain[c])
        /\ Len(chain[c].log) = 3
        /\ chain[c].log[1].kind = "fetch" /\ chain[c].log[1].cookie = "s1"
        /\ LastCall(chain[c]).kind = "session"
        /\ chain[c].lastResponse[1].status = 401
        /\ SessionCleared

----------------------------------------------------------------------------
\* C28: authenticate() fails only at its connect step or its session-create
\* step, and no step of a handshake other than the one that handles a
\* successful session-create response changes the authenticated flag or the
\* cookie: not the start of authenticate(), not the step after the connect
\* response, not the step that handles a failed session-create.
C28_FailedHandshakeWritesNothing ==
    /\ [](\A c \in Chains :
            (chain[c].op = "authenticate" /\ Failed(chain[c])) => HandshakeFailed(chain[c]))
    /\ [][\A c \in Chains :
            (chain'[c] # chain[c] /\
                \/ Idle(c) /\ chain'[c].op = "authenticate"
                \/ chain[c].pc = "connect"
                \/ chain[c].pc = "session" /\ Failed(chain'[c])) =>
                SessionUnchanged]_vars

\* authenticate() on a client that holds session s1 has failed at its
\* session-create step, and the client still holds the session.
C28_Witness ==
    \E c \in Chains :
        /\ chain[c].op = "authenticate" /\ HandshakeFailed(chain[c])
        /\ LastCall(chain[c]).kind = "session"
        /\ authenticated /\ sessionCookie = "s1"

\* The same for a failure at the connect step.
C28_WitnessConnect ==
    \E c \in Chains :
        /\ chain[c].op = "authenticate" /\ HandshakeFailed(chain[c])
        /\ LastCall(chain[c]).kind = "connect"
        /\ authenticated /\ sessionCookie = "s1"

----------------------------------------------------------------------------
\* Every call of the chain went out through the payment dispatcher to
\* endpoint: no handshake call, no Cookie header.
OnlyPaymentCalls(ch, endpoint) ==
    \A i \in 1..Len(ch.log) :
        /\ ch.log[i].kind \in {"x402", "paid"}
        /\ ch.log[i].endpoint = endpoint
        /\ ch.log[i].cookie = Undefined

\* C29: createTaskX402 and submitWorkX402 send their call through the
\* payment dispatcher, to /api/x402/tasks and /api/x402/submissions, with no
\* handshake and no Cookie header, whatever useX402 is; createTask does the
\* same to /api/x402/tasks on a client with useX402, and on a client without
\* it sends its request to /api/tasks/create on the session path, after the
\* handshake when needed and with the stored cookie.
C29_PaymentMethodsRouting ==
    \A c \in Chains :
        LET ch == chain[c]
        IN  /\ ch.op = "createTaskX402" =>
                  /\ OnlyPaymentCalls(ch, <<"api", "x402", "tasks">>)
                  /\ ch.pc # "idle" => Len(ch.log) >= 1
            /\ ch.op = "submitWorkX402" =>
                  /\ OnlyPaymentCalls(ch, <<"api", "x402", "submissions">>)
                  /\ ch.pc # "idle" => Len(ch.log) >= 1
            /\ (ch.op = "createTask" /\ client.useX402) =>
                  /\ OnlyPaymentCalls(ch, <<"api", "x402", "tasks">>)
                  /\ ch.pc # "idle" => Len(ch.log) >= 1
            /\ (ch.op = "createTask" /\ ~client.useX402) =>
                  /\ \A i \in ResourceCalls(ch) :
                        /\ ch.log[i].kind = "fetch"
                        /\ ch.log[i].endpoint = <<"api", "tasks", "create">>
                  /\ ch.pc = "fetch" =>
                        /\ authenticated
                        /\ LastCall(ch).cookie = CookieHeader(sessionCookie)
                  /\ ch.pc # "idle" => ch.pc \in {"connect", "session", "fetch"}

\* createTaskX402 is pending, sent without a cookie through the payment
\* dispatcher, on a client without useX402 that holds session s1.
C29_Witness ==
    \E c \in Chains :
        /\ chain[c].op = "createTaskX402" /\ chain[c].pc = "x402"
        /\ client.state = "ready" /\ ~client.useX402
        /\ authenticated /\ sessionCookie = "s1"
        /\ chain[c].log[1].cookie = Undefined

\* createTask is pending through the payment dispatcher on a client with
\* useX402 that was never authenticated.
C29_WitnessCreateTaskX402 ==
    \E c \in Chains :
        /\ chain[c].op = "createTask" /\ chain[c].pc = "x402"
        /\ client.useX402 /\ ~authenticated
        /\ Len(chain[c].log) = 1

\* createTask is pending on the session path of a client without useX402.
C29_WitnessCreateTaskSession ==
    \E c \in Chains :
        /\ chain[c].op = "createTask" /\ chain[c].pc = "fetch"
        /\ client.state = "ready" /\ ~client.useX402
        /\ LastCall(chain[c]).endpoint = <<"api", "tasks", "create">>
        /\ LastCall(chain[c]).cookie = "s1"

\* submitWorkX402 is pending on a client with useX402.
C29_WitnessSubmit ==
    \E c \in Chains :
        /\ chain[c].op = "submitWorkX402" /\ chain[c].pc = "x402"
        /\ client.useX402

----------------------------------------------------------------------------
Waiting(ch) == ch.op = "waitForTaskStatus"

\* Date.now() - startTime has reached timeoutMs.
PastDeadline(ch, t) == t - ch.startTime >= ch.args[1].timeoutMs

\* C30: waitForTaskStatus looks at the deadline before each fetch and
\* nowhere else.  Called with timeoutMs of 0 or less it has failed with the
\* timeout error without any call.  When a timer fires at or past the
\* deadline the call fails with the timeout error and sends nothing more;
\* before the deadline it goes on with the next fetch.  The answer to a fetch
\* is handled without a look at the deadline: a task in the target status is
\* returned and any other task starts the next sleep, also past the deadline.
C30_DeadlineBeforeFetchOnly ==
    /\ [](\A c \in Chains :
            (Waiting(chain[c]) /\ chain[c].args[1].timeoutMs <= 0) =>
                /\ TimedOut(chain[c])
                /\ chain[c].log = <<>>)
    /\ [][\A c \in Chains :
            (Waiting(chain[c]) /\ chain[c].pc = "sleep" /\ chain'[c].pc # "sleep") =>
                IF PastDeadline(chain[c], now)
                THEN /\ TimedOut(chain'[c])
                     /\ chain'[c].log = chain[c].log
                ELSE /\ chain'[c].pc = "fetch"
                     /\ Len(chain'[c].log) = Len(chain[c].log) + 1]_vars
    /\ [][\A c \in Chains :
            (Waiting(chain[c]) /\ chain[c].pc = "fetch" /\ chain'[c].pc # "fetch"
                /\ ResponseOk(chain'[c].lastResponse[1])
                /\ chain'[c].lastResponse[1].body.json
                /\ chain'[c].lastResponse[1].body.task # None) =>
                IF chain'[c].lastResponse[1].body.task[1].status =
                       chain[c].args[1].targetStatus
                THEN Succeeded(chain'[c])
                ELSE chain'[c].pc = "sleep"]_vars

\* waitForTaskStatus with timeoutMs 0 has failed with the timeout error
\* without a call.
C30_Witness ==
    \E c \in Chains :
        /\ Waiting(chain[c]) /\ chain[c].args[1].timeoutMs = 0
        /\ TimedOut(chain[c])
        /\ chain[c].log = <<>>

\* A timer that fired past the deadline has ended the call: the last fetch
\* went out before the last sleep.
C30_WitnessLastSleep ==
    \E c \in Chains :
        /\ Waiting(chain[c]) /\ TimedOut(chain[c])
        /\ chain[c].args[1].timeoutMs > 0
        /\ chain[c].sleeps >= 1
        /\ chain[c].lastSleeps = chain[c].sleeps - 1
        /\ chain[c].lastAt = Len(chain[c].log)

\* A fetch answered past the deadline with a task that is not in the target
\* status has started another sleep.
C30_WitnessSleepPastDeadline ==
    \E c \in Chains :
        /\ Waiting(chain[c]) /\ chain[c].pc = "sleep"
        /\ chain[c].args[1].timeoutMs > 0
        /\ PastDeadline(chain[c], chain[c].wakeAt - TimerDelay(chain[c].args[1].pollIntervalMs))

====
